---- MODULE Spec2Model ----
(***************************************************************************)
(* Model of the Matrix class of src/src/math.ts (12Jeef/jexel).            *)
(*                                                                         *)
(* Numbers.  A number that reaches the code as an argument (an index, a    *)
(* dimension, a bound of a range) may be non-integral, and the code tests  *)
(* that with `x % 1 !== 0`.  Such an argument is represented in halves:    *)
(* the integer h stands for the number h/2, so 3 is 1.5 and Num(3) = 6 is  *)
(* the number 3.  The entries of a constructed matrix's dim are integers   *)
(* (the constructor has checked them) and are kept as plain integers, as   *)
(* are the elements of data, whose integrality the code never looks at.    *)
(***************************************************************************)
EXTENDS Integers, Sequences, FiniteSets, TLC

VARIABLES
    this,     \* the receiver: [dim |-> <<..>>, data |-> <<..>>], or NoMatrix
    before,   \* the receiver as it was when the last call began
    orig,     \* the receiver as it was constructed
    call,     \* the last call: [op |-> name, args |-> its arguments]
    ret,      \* what the last call returned: [kind |-> .., val |-> ..]
    err,      \* the error the last call raised, "none" if it returned
    log,      \* the names of the in-place calls that returned, in order
    heap      \* the arrays and instances of SpecHeap, by address

vars == <<this, before, orig, call, ret, err, log, heap>>

----------------------------------------------------------------------------
(* Bounds of the model *)

MaxRank == 3      \* longest dim drawn
MaxDim == 3       \* largest axis drawn
MaxLen == 6       \* longest buffer drawn
MaxCalls == 2     \* in-place calls made on one receiver

----------------------------------------------------------------------------
(* Numbers in halves *)

Num(n) == 2 * n
IsInteger(x) == x % 2 = 0
Whole(x) == x \div 2
Abs(n) == IF n < 0 THEN -n ELSE n
\* Math.floor(a / b) for integers a, b with b # 0
FloorDiv(a, b) == IF b > 0 THEN a \div b ELSE (-a) \div (-b)
\* +(condition)
Bit(b) == IF b THEN 1 ELSE 0

NumSeq(s) == [i \in 1..Len(s) |-> Num(s[i])]

RECURSIVE Product(_)
Product(s) == IF s = <<>> THEN 1 ELSE Head(s) * Product(Tail(s))

\* Array.from(new Array(n).keys())
Keys(n) == [i \in 1..n |-> i - 1]

----------------------------------------------------------------------------
(* Outcomes of a call *)

Ok(v) == [err |-> "none", val |-> v]
Throw(e) == [err |-> e, val |-> <<>>]

NoMatrix == [dim |-> <<>>, data |-> <<>>]
Given(data) == [present |-> TRUE, val |-> data]
Omitted == [present |-> FALSE, val |-> <<>>]

----------------------------------------------------------------------------
(* Matrix.constructor *)

\* dimLength rejecting only the negative entries
RECURSIVE dimLengthAllowsZero(_, _, _)
dimLengthAllowsZero(dim, i, length) ==
    IF i > Len(dim) THEN Ok(length)
    ELSE LET d == dim[i] IN
         IF d < 0 THEN Throw("ValueError")
         ELSE IF ~IsInteger(d) THEN Throw("ValueError")
         ELSE dimLengthAllowsZero(dim, i + 1, length * Whole(d))

\* the loop over this.dim: the product of the entries, or the error of the
\* first entry that is <= 0 or not an integer
RECURSIVE dimLength(_, _, _)
dimLength(dim, i, length) ==
    IF i > Len(dim) THEN Ok(length)
    ELSE LET d == dim[i] IN
         IF d <= 0 THEN Throw("ValueError")
         ELSE IF ~IsInteger(d) THEN Throw("ValueError")
         ELSE dimLength(dim, i + 1, length * Whole(d))

\* new Matrix(dim, data): dim in halves, data Given(..) or Omitted
Matrix(dim, data) ==
    IF Len(dim) <= 0 THEN Throw("ValueError")
    ELSE LET l == dimLength(dim, 1, 1) IN
         IF l.err # "none" THEN l
         ELSE LET d == IF data.present THEN data.val
                       ELSE [i \in 1..l.val |-> 0]
              IN IF Len(d) # l.val THEN Throw("ValueError")
                 ELSE Ok([dim |-> [i \in 1..Len(dim) |-> Whole(dim[i])],
                          data |-> d])

is2D(m) == Len(m.dim) = 2
isSquare(m) == is2D(m) /\ m.dim[1] = m.dim[2]
isVector(m) == is2D(m) /\ m.dim[2] = 1

copy(m) == Matrix(NumSeq(m.dim), Given(m.data))
reshape(m, dim) == Matrix(dim, Given(m.data))

----------------------------------------------------------------------------
(* Index mapping *)

\* getIndexLoop without the wrap of a negative index
RECURSIVE getIndexLoopNoWrap(_, _, _, _)
getIndexLoopNoWrap(dim, indices, i, dataI) ==
    IF i > Len(indices) THEN Ok(dataI)
    ELSE LET index == indices[i]
             axis == dim[i]
         IN IF ~IsInteger(index) THEN Throw("ValueError")
            ELSE IF index < Num(-axis) THEN Throw("RangeError")
            ELSE IF index >= Num(axis) THEN Throw("RangeError")
            ELSE getIndexLoopNoWrap(dim, indices, i + 1,
                     dataI * axis + Whole(index))

\* getIndexLoop with the range checks ahead of the integer check
RECURSIVE getIndexLoopRangeFirst(_, _, _, _)
getIndexLoopRangeFirst(dim, indices, i, dataI) ==
    IF i > Len(indices) THEN Ok(dataI)
    ELSE LET index == indices[i]
             axis == dim[i]
         IN IF index < Num(-axis) THEN Throw("RangeError")
            ELSE IF index >= Num(axis) THEN Throw("RangeError")
            ELSE IF ~IsInteger(index) THEN Throw("ValueError")
            ELSE getIndexLoopRangeFirst(dim, indices, i + 1,
                     dataI * axis + Whole(index) + axis * Bit(index < 0))

RECURSIVE getIndexLoop(_, _, _, _)
getIndexLoop(dim, indices, i, dataI) ==
    IF i > Len(indices) THEN Ok(dataI)
    ELSE LET index == indices[i]
             axis == dim[i]
         IN IF ~IsInteger(index) THEN Throw("ValueError")
            ELSE IF index < Num(-axis) THEN Throw("RangeError")
            ELSE IF index >= Num(axis) THEN Throw("RangeError")
            ELSE getIndexLoop(dim, indices, i + 1,
                     dataI * axis + Whole(index) + axis * Bit(index < 0))

\* getIndex(...indices): the flat offset (0-based), indices in halves
getIndex(m, indices) ==
    IF Len(indices) # Len(m.dim) THEN Throw("ValueError")
    ELSE getIndexLoop(m.dim, indices, 1, 0)

\* getIndicesLoop dividing by the axis instead of the suffix product
RECURSIVE getIndicesLoopByAxis(_, _, _, _)
getIndicesLoopByAxis(dim, i, length, index) ==
    IF i > Len(dim) THEN <<>>
    ELSE <<index % dim[i]>>
         \o getIndicesLoopByAxis(dim, i + 1, length, index \div dim[i])

RECURSIVE getIndicesLoop(_, _, _, _)
getIndicesLoop(dim, i, length, index) ==
    IF i > Len(dim) THEN <<>>
    ELSE LET l == length \div dim[i] IN
         <<index \div l>> \o getIndicesLoop(dim, i + 1, l, index % l)

\* getIndices(index): index in halves, the result a sequence of integers
getIndices(m, index) ==
    IF index < 0 \/ index >= Num(Len(m.data)) THEN Throw("RangeError")
    ELSE IF ~IsInteger(index) THEN Throw("ValueError")
    ELSE Ok(getIndicesLoop(m.dim, 1, Len(m.data), Whole(index)))

\* get(...indices)
get(m, indices) ==
    LET i == getIndex(m, indices) IN
    IF i.err # "none" THEN i ELSE Ok(m.data[i.val + 1])

\* An in-place method yields [err, val]: val is the receiver when the call
\* ends, whether it returned or raised.

\* set(value, ...indices)
set(m, value, indices) ==
    LET i == getIndex(m, indices) IN
    IF i.err # "none" THEN [err |-> i.err, val |-> m]
    ELSE Ok([m EXCEPT !.data[i.val + 1] = value])

----------------------------------------------------------------------------
(* Bulk operations *)

\* fill(value)
fill(m, value) == Ok([m EXCEPT !.data = [i \in 1..Len(m.data) |-> value]])

\* toFilled(value) = this.copy().fill(value)
toFilled(m, value) ==
    LET c == copy(m) IN IF c.err # "none" THEN c ELSE fill(c.val, value)

\* The callbacks handed to map and withMap: (value, indices) => number.
\* A callback is the caller's function and may throw: "throwsPastFirst"
\* returns value + 1 on the first index of the first axis and throws on
\* every other
Callbacks == {"timesFirst", "timesLast", "negate", "throwsPastFirst"}
callback(cb, value, indices) ==
    CASE cb = "timesFirst" -> value * indices[1]
      [] cb = "timesLast" -> value * indices[Len(indices)]
      [] cb = "negate" -> -value
      [] cb = "throwsPastFirst" -> value + 1
\* the call callback(value, indices) throws
raises(cb, indices) == cb = "throwsPastFirst" /\ indices[1] > 0

\* map(callback)
map(m, cb) ==
    IF \E i \in 1..Len(m.data) : raises(cb, getIndices(m, Num(i - 1)).val)
    THEN Throw("Error")
    ELSE Matrix(NumSeq(m.dim),
                Given([i \in 1..Len(m.data) |->
                         callback(cb, m.data[i], getIndices(m, Num(i - 1)).val)]))

\* withMap(callback): element i is replaced before element i+1 is read, and
\* a throw of the callback ends the loop where it stands
RECURSIVE withMapLoop(_, _, _)
withMapLoop(m, cb, i) ==
    IF i > Len(m.data) THEN Ok(m)
    ELSE IF raises(cb, getIndices(m, Num(i - 1)).val)
         THEN [err |-> "Error", val |-> m]
    ELSE withMapLoop(
             [m EXCEPT !.data[i] =
                 callback(cb, m.data[i], getIndices(m, Num(i - 1)).val)],
             cb, i + 1)
withMap(m, cb) == withMapLoop(m, cb, 1)

----------------------------------------------------------------------------
(* Transpose *)

\* transpose(): newData is filled for x < dim[1], y < dim[0] with get(y, x),
\* then copied over this.data; this.dim is not assigned
transpose(m) ==
    IF ~is2D(m) THEN [err |-> "TypeError", val |-> m]
    ELSE LET newData ==
                 [k \in 1..(m.dim[2] * m.dim[1]) |->
                     LET x == (k - 1) \div m.dim[1]
                         y == (k - 1) % m.dim[1]
                     IN get(m, <<Num(y), Num(x)>>).val]
         IN Ok([m EXCEPT !.data = [i \in 1..Len(m.data) |-> newData[i]]])

\* toTransposed() = this.copy().transpose()
toTransposed(m) ==
    LET c == copy(m) IN IF c.err # "none" THEN c ELSE transpose(c.val)

----------------------------------------------------------------------------
(* Slicing.  A range is <<r>> (a single number), <<start, stop>> or        *)
(* <<start, stop, step>>, in halves.                                       *)

\* sliceRange rejecting a stop equal to the axis, as it rejects such a start
sliceRangeStopExclusive(range, axis) ==
    IF Len(range) = 1 THEN
        IF range[1] < 0 \/ range[1] >= Num(axis) THEN Throw("RangeError")
        ELSE IF ~IsInteger(range[1]) THEN Throw("ValueError")
        ELSE Ok([range |-> <<Whole(range[1])>>, newDim |-> 1])
    ELSE
        IF ~IsInteger(range[1]) THEN Throw("ValueError")
        ELSE IF range[1] < Num(-axis) THEN Throw("RangeError")
        ELSE IF range[1] >= Num(axis) THEN Throw("RangeError")
        ELSE IF ~IsInteger(range[2]) THEN Throw("ValueError")
        ELSE IF range[2] < Num(-axis) THEN Throw("RangeError")
        ELSE IF range[2] >= Num(axis) THEN Throw("RangeError")
        ELSE LET start == range[1] + Num(axis) * Bit(range[1] < 0)
                 stop == range[2] + Num(axis) * Bit(range[2] < 0)
                 step == IF Len(range) = 3 THEN range[3]
                         ELSE IF stop > start THEN Num(1) ELSE Num(-1)
             IN IF ~IsInteger(step) THEN Throw("ValueError")
                ELSE IF step = 0 THEN Throw("ValueError")
                ELSE IF start < stop /\ step < 0 THEN Throw("ValueError")
                ELSE IF stop < start /\ step > 0 THEN Throw("ValueError")
                ELSE Ok([range |-> <<Whole(start), Whole(stop), Whole(step)>>,
                         newDim |-> FloorDiv(Abs(start - stop), step)])

\* The body of the validation loop for one axis: the error it raises, or
\* the entry it leaves in ranges (in integers) and the entry it pushes on
\* newDim
sliceRange(range, axis) ==
    IF Len(range) = 1 THEN
        IF range[1] < 0 \/ range[1] >= Num(axis) THEN Throw("RangeError")
        ELSE IF ~IsInteger(range[1]) THEN Throw("ValueError")
        ELSE Ok([range |-> <<Whole(range[1])>>, newDim |-> 1])
    ELSE
        IF ~IsInteger(range[1]) THEN Throw("ValueError")
        ELSE IF range[1] < Num(-axis) THEN Throw("RangeError")
        ELSE IF range[1] >= Num(axis) THEN Throw("RangeError")
        ELSE IF ~IsInteger(range[2]) THEN Throw("ValueError")
        ELSE IF range[2] < Num(-axis) THEN Throw("RangeError")
        ELSE IF range[2] > Num(axis) THEN Throw("RangeError")
        ELSE LET start == range[1] + Num(axis) * Bit(range[1] < 0)
                 stop == range[2] + Num(axis) * Bit(range[2] < 0)
                 step == IF Len(range) = 3 THEN range[3]
                         ELSE IF stop > start THEN Num(1) ELSE Num(-1)
             IN IF ~IsInteger(step) THEN Throw("ValueError")
                ELSE IF step = 0 THEN Throw("ValueError")
                ELSE IF start < stop /\ step < 0 THEN Throw("ValueError")
                ELSE IF stop < start /\ step > 0 THEN Throw("ValueError")
                ELSE Ok([range |-> <<Whole(start), Whole(stop), Whole(step)>>,
                         newDim |-> FloorDiv(Abs(start - stop), step)])

\* The validation loop over the axes from i on: the first error, or the
\* normalised ranges and newDim
RECURSIVE sliceRanges(_, _, _, _, _)
sliceRanges(dim, ranges, i, norm, newDim) ==
    IF i > Len(ranges) THEN Ok([ranges |-> norm, newDim |-> newDim])
    ELSE LET r == sliceRange(ranges[i], dim[i]) IN
         IF r.err # "none" THEN r
         ELSE sliceRanges(dim, ranges, i + 1, Append(norm, r.val.range),
                          Append(newDim, r.val.newDim))

\* dfs(i): what the calls of this.get push on newData, in order
RECURSIVE dfs(_, _, _, _)
RECURSIVE dfsLoop(_, _, _, _, _)
dfs(m, ranges, i, indices) ==
    IF i > Len(ranges) THEN <<get(m, NumSeq(indices))>>
    ELSE IF Len(ranges[i]) = 1
         THEN dfs(m, ranges, i + 1, [indices EXCEPT ![i] = ranges[i][1]])
         ELSE dfsLoop(m, ranges, i, indices, ranges[i][1])

\* the for loop of dfs(i) from index on
dfsLoop(m, ranges, i, indices, index) ==
    LET start == ranges[i][1]
        stop == ranges[i][2]
        step == ranges[i][3]
    IN IF (start < stop /\ index < stop) \/ (~(start < stop) /\ index > stop)
       THEN dfs(m, ranges, i + 1, [indices EXCEPT ![i] = index])
                \o dfsLoop(m, ranges, i, indices, index + step)
       ELSE <<>>

\* padRanges pushing the whole first axis for every unsupplied one
padRangesOfFirstAxis(m, ranges) ==
    [j \in 1..Len(m.dim) |->
        IF j <= Len(ranges) THEN ranges[j] ELSE <<0, Num(m.dim[1])>>]

\* the ranges after the unsupplied trailing ones are pushed
padRanges(m, ranges) ==
    [j \in 1..Len(m.dim) |->
        IF j <= Len(ranges) THEN ranges[j] ELSE <<0, Num(m.dim[j])>>]

\* slice(...ranges)
slice(m, ranges) ==
    IF Len(ranges) > Len(m.dim) THEN Throw("ValueError")
    ELSE LET v == sliceRanges(m.dim, padRanges(m, ranges), 1, <<>>, <<>>) IN
         IF v.err # "none" THEN v
         ELSE LET got == dfs(m, v.val.ranges, 1, [j \in 1..Len(m.dim) |-> 0])
                  bad == {k \in 1..Len(got) : got[k].err # "none"}
              IN IF bad # {}
                 THEN Throw(got[CHOOSE k \in bad : \A l \in bad : k <= l].err)
                 ELSE Matrix(NumSeq(v.val.newDim),
                             Given([k \in 1..Len(got) |-> got[k].val]))

\* The same iteration one step at a time.  A frame holds the locals of
\* slice while dfs(0) runs: the normalised ranges, newDim, indices, the loop
\* variable index of every level, the level i at work, newData, and whether
\* dfs(i) is being called or dfs(i + 1) has just returned to level i.

\* the condition of the for loop of a range [start, stop, step]
inLoop(range, index) ==
    \/ range[1] < range[2] /\ index < range[2]
    \/ ~(range[1] < range[2]) /\ index > range[2]

\* the loop of level f.i tests index: the body calls dfs(i + 1), or the
\* loop ends and dfs(i) returns
dfsTest(f, index) ==
    IF inLoop(f.ranges[f.i], index)
    THEN [f EXCEPT !.index[f.i] = index, !.indices[f.i] = index,
                   !.i = f.i + 1, !.pc = "call"]
    ELSE [f EXCEPT !.index[f.i] = index, !.i = f.i - 1, !.pc = "return"]

\* dfs(i) is called
dfsCall(m, f) ==
    IF f.i > Len(f.ranges)
    THEN LET got == get(m, NumSeq(f.indices)) IN
         IF got.err # "none" THEN [f EXCEPT !.pc = "throw", !.thrown = got.err]
         ELSE [f EXCEPT !.newData = Append(f.newData, got.val),
                        !.i = f.i - 1, !.pc = "return"]
    ELSE IF Len(f.ranges[f.i]) = 1
         THEN [f EXCEPT !.indices[f.i] = f.ranges[f.i][1], !.i = f.i + 1]
         ELSE dfsTest(f, f.ranges[f.i][1])

\* dfsReturn with a loop that comes round without moving index, as a step
\* of 0 would make it
dfsReturnStepOfZero(f) ==
    IF Len(f.ranges[f.i]) = 1 THEN [f EXCEPT !.i = f.i - 1]
    ELSE dfsTest(f, f.index[f.i])

\* dfs(i + 1) has returned to dfs(i): index += step and the test again
dfsReturn(f) ==
    IF Len(f.ranges[f.i]) = 1 THEN [f EXCEPT !.i = f.i - 1]
    ELSE dfsTest(f, f.index[f.i] + f.ranges[f.i][3])

\* slice up to the call dfs(0): the error of the validation, or the frame
sliceBegin(m, ranges) ==
    IF Len(ranges) > Len(m.dim) THEN Throw("ValueError")
    ELSE LET v == sliceRanges(m.dim, padRanges(m, ranges), 1, <<>>, <<>>) IN
         IF v.err # "none" THEN v
         ELSE Ok([ranges |-> v.val.ranges, newDim |-> v.val.newDim,
                  indices |-> [j \in 1..Len(m.dim) |-> 0],
                  index |-> [j \in 1..Len(m.dim) |-> 0],
                  i |-> 1, pc |-> "call", newData |-> <<>>, thrown |-> "none"])

\* slice after dfs(0): the error thrown inside it, or new Matrix(newDim, newData)
sliceEnd(f) ==
    IF f.pc = "throw" THEN Throw(f.thrown)
    ELSE Matrix(NumSeq(f.newDim), Given(f.newData))

----------------------------------------------------------------------------
(* Elementwise and scalar arithmetic, multiplication *)

\* the two checks that add, withAdd, sub and withSub begin with
sameShape(m, mat) ==
    /\ Len(m.dim) = Len(mat.dim)
    /\ \A i \in 1..Len(m.dim) : m.dim[i] = mat.dim[i]

add(m, mat) ==
    IF ~sameShape(m, mat) THEN Throw("TypeError")
    ELSE Matrix(NumSeq(m.dim),
                Given([i \in 1..Len(m.data) |-> m.data[i] + mat.data[i]]))

withAdd(m, mat) ==
    IF ~sameShape(m, mat) THEN [err |-> "TypeError", val |-> m]
    ELSE Ok([m EXCEPT !.data = [i \in 1..Len(m.data) |-> m.data[i] + mat.data[i]]])

sub(m, mat) ==
    IF ~sameShape(m, mat) THEN Throw("TypeError")
    ELSE Matrix(NumSeq(m.dim),
                Given([i \in 1..Len(m.data) |-> m.data[i] - mat.data[i]]))

withSub(m, mat) ==
    IF ~sameShape(m, mat) THEN [err |-> "TypeError", val |-> m]
    ELSE Ok([m EXCEPT !.data = [i \in 1..Len(m.data) |-> m.data[i] - mat.data[i]]])

\* withAddScalar, withSubScalar: this.withMap((value) => value +/- a)
withAddScalar(m, a) == Ok([m EXCEPT !.data = [i \in 1..Len(m.data) |-> m.data[i] + a]])
withSubScalar(m, a) == Ok([m EXCEPT !.data = [i \in 1..Len(m.data) |-> m.data[i] - a]])
withMulScalar(m, a) == Ok([m EXCEPT !.data = [i \in 1..Len(m.data) |-> m.data[i] * a]])

\* dotRowCol with the loop begun at i = 1
RECURSIVE dotRowColFromOne(_, _, _, _, _)
dotRowColFromOne(m, mat, row, col, n) ==
    IF n <= 1 THEN 0
    ELSE dotRowColFromOne(m, mat, row, col, n - 1)
         + get(m, <<Num(row), Num(n - 1)>>).val
           * get(mat, <<Num(n - 1), Num(col)>>).val

\* the sum over i < n of this.get(row, i) * mat.get(i, col)
RECURSIVE dotRowCol(_, _, _, _, _)
dotRowCol(m, mat, row, col, n) ==
    IF n = 0 THEN 0
    ELSE dotRowCol(m, mat, row, col, n - 1)
         + get(m, <<Num(row), Num(n - 1)>>).val
           * get(mat, <<Num(n - 1), Num(col)>>).val

postMul(m, mat) ==
    IF ~is2D(m) THEN Throw("TypeError")
    ELSE IF ~is2D(mat) THEN Throw("TypeError")
    ELSE IF m.dim[2] # mat.dim[1] THEN Throw("TypeError")
    ELSE LET newDim == <<m.dim[1], mat.dim[2]>> IN
         Matrix(NumSeq(newDim),
                Given([k \in 1..(newDim[1] * newDim[2]) |->
                         dotRowCol(m, mat, (k - 1) \div newDim[2],
                                   (k - 1) % newDim[2], m.dim[2])]))

\* preMul(mat) = mat.postMul(this)
preMul(m, mat) == postMul(mat, m)

\* a % b of the language: the sign of the result is the sign of a (b > 0)
Rem(a, b) == IF a >= 0 THEN a % b ELSE -((-a) % b)
\* mod(a, b) = ((a % b) + b) % b
mod(a, b) == Rem(Rem(a, b) + b, b)

\* the product over i < n of this.get(i, mod(col + dir * i, size))
RECURSIVE diagonal(_, _, _, _)
diagonal(m, col, dir, n) ==
    IF n = 0 THEN 1
    ELSE diagonal(m, col, dir, n - 1)
         * get(m, <<Num(n - 1), Num(mod(col + dir * (n - 1), m.dim[1]))>>).val

\* detLoop adding the products of both diagonals
RECURSIVE detLoopAddsBoth(_, _)
detLoopAddsBoth(m, col) ==
    IF col = 0 THEN 0
    ELSE detLoopAddsBoth(m, col - 1)
         + (diagonal(m, col - 1, 1, m.dim[1]) + diagonal(m, col - 1, -1, m.dim[1]))

\* the loop of det over the columns below col: sum += add - sub
RECURSIVE detLoop(_, _)
detLoop(m, col) ==
    IF col = 0 THEN 0
    ELSE detLoop(m, col - 1)
         + (diagonal(m, col - 1, 1, m.dim[1]) - diagonal(m, col - 1, -1, m.dim[1]))

\* det()
det(m) ==
    IF ~is2D(m) THEN Throw("TypeError")
    ELSE IF ~isSquare(m) THEN Throw("TypeError")
    ELSE IF m.dim[1] = 1 THEN Ok(m.data[1])
    ELSE IF m.dim[1] = 2
         THEN Ok(m.data[1] * m.data[4] - m.data[2] * m.data[3])
    ELSE Ok(detLoop(m, m.dim[1]))

\* identity with the ones on the other diagonal
identityOtherDiagonal(size) ==
    Matrix(<<Num(size), Num(size)>>,
           Given([k \in 1..(size * size) |->
                    Bit(((k - 1) \div size) + ((k - 1) % size) = size - 1)]))

\* Matrix.identity(size), size an integer >= 0
identity(size) ==
    Matrix(<<Num(size), Num(size)>>,
           Given([k \in 1..(size * size) |->
                    Bit((k - 1) \div size = (k - 1) % size)]))

----------------------------------------------------------------------------
(* Vec: a matrix of shape [size, 1] *)

\* the not-a-number value
NaN == "NaN"

\* get size
getSize(v) == v.dim[1]

\* get x, get y, get z, get w
getX(v) == IF getSize(v) < 1 THEN NaN ELSE v.data[1]
getY(v) == IF getSize(v) < 2 THEN NaN ELSE v.data[2]
getZ(v) == IF getSize(v) < 3 THEN NaN ELSE v.data[3]
getW(v) == IF getSize(v) < 4 THEN NaN ELSE v.data[4]

\* set x, set y, set z, set w: nothing is assigned past the size
setX(v, value) ==
    IF getSize(v) < 1 THEN [err |-> "none", val |-> v]
    ELSE [err |-> "none", val |-> [v EXCEPT !.data[1] = value]]

\* set y assigning to the element of x
setYWritesX(v, value) ==
    IF getSize(v) < 2 THEN [err |-> "none", val |-> v]
    ELSE [err |-> "none", val |-> [v EXCEPT !.data[1] = value]]

setY(v, value) ==
    IF getSize(v) < 2 THEN [err |-> "none", val |-> v]
    ELSE [err |-> "none", val |-> [v EXCEPT !.data[2] = value]]

setZ(v, value) ==
    IF getSize(v) < 3 THEN [err |-> "none", val |-> v]
    ELSE [err |-> "none", val |-> [v EXCEPT !.data[3] = value]]

setW(v, value) ==
    IF getSize(v) < 4 THEN [err |-> "none", val |-> v]
    ELSE [err |-> "none", val |-> [v EXCEPT !.data[4] = value]]

\* Math.min
Min(a, b) == IF a < b THEN a ELSE b

\* toVec without the zeros pushed up to size
toVecUnpadded(n, mat) ==
    IF ~isVector(mat) THEN Throw("ValueError")
    ELSE Matrix(<<Num(n), Num(1)>>,
                Given([i \in 1..Min(n, mat.dim[1]) |->
                          get(mat, <<Num(i - 1), Num(0)>>).val]))

\* Vec.toVec(size, mat): the first min(size, mat.shape[0]) elements of
\* mat, then zeros up to size, handed to new Vec(size, data)
toVec(n, mat) ==
    IF ~isVector(mat) THEN Throw("ValueError")
    ELSE Matrix(<<Num(n), Num(1)>>,
                Given([i \in 1..n |->
                          IF i <= Min(n, mat.dim[1])
                          THEN get(mat, <<Num(i - 1), Num(0)>>).val
                          ELSE 0]))

\* getAxis(i), i in halves
getAxis(v, i) ==
    IF i < 0 \/ i >= Num(getSize(v)) THEN Throw("RangeError")
    ELSE IF ~IsInteger(i) THEN Throw("ValueError")
    ELSE Ok(v.data[Whole(i) + 1])

\* the loop of dot over i < n: sum += this.getAxis(i) * vec.getAxis(i)
RECURSIVE dotLoop(_, _, _)
dotLoop(v, vec, n) ==
    IF n = 0 THEN Ok(0)
    ELSE LET sum == dotLoop(v, vec, n - 1)
             a == getAxis(v, Num(n - 1))
             b == getAxis(vec, Num(n - 1))
         IN IF sum.err # "none" THEN sum
            ELSE IF a.err # "none" THEN a
            ELSE IF b.err # "none" THEN b
            ELSE Ok(sum.val + a.val * b.val)

\* dot reading mat itself instead of this.toVec(mat)
dotUncast(v, mat) ==
    LET vec == toVec(getSize(v), mat) IN
    IF vec.err # "none" THEN vec ELSE dotLoop(v, mat, getSize(v))

\* dot(mat)
dot(v, mat) ==
    LET vec == toVec(getSize(v), mat) IN
    IF vec.err # "none" THEN vec ELSE dotLoop(v, vec.val, getSize(v))

\* get xy, get xyz, get xyzw, get wxyz
getXy(v) == <<getX(v), getY(v)>>
getXyz(v) == <<getX(v), getY(v), getZ(v)>>
getXyzw(v) == <<getX(v), getY(v), getZ(v), getW(v)>>
getWxyz(v) == <<getW(v), getX(v), getY(v), getZ(v)>>

\* getCrossMat with the signs of the matrix exchanged
getCrossMatNegated(v) ==
    LET vec == toVec(3, v) IN
    IF vec.err # "none" THEN vec
    ELSE LET xyz == getXyz(vec.val) IN
         Matrix(NumSeq(<<3, 3>>),
                Given(<<0, xyz[3], -xyz[2],
                        -xyz[3], 0, xyz[1],
                        xyz[2], -xyz[1], 0>>))

\* getCrossMat(): [0, -z, y, z, 0, -x, -y, x, 0] of Vec.toVec(3, this)
getCrossMat(v) ==
    LET vec == toVec(3, v) IN
    IF vec.err # "none" THEN vec
    ELSE LET xyz == getXyz(vec.val) IN
         Matrix(NumSeq(<<3, 3>>),
                Given(<<0, -xyz[3], xyz[2],
                        xyz[3], 0, -xyz[1],
                        -xyz[2], xyz[1], 0>>))

\* cross(mat) = Vec.toVec(3, this.getCrossMat().postMul(Vec.toVec(3, mat)))
cross(v, mat) ==
    LET aMat == getCrossMat(v) IN
    IF aMat.err # "none" THEN aMat
    ELSE LET b == toVec(3, mat) IN
         IF b.err # "none" THEN b
         ELSE LET product == postMul(aMat.val, b.val) IN
              IF product.err # "none" THEN product
              ELSE toVec(3, product.val)

----------------------------------------------------------------------------
(* getTransformMatrix *)

\* the 4 x 4 matrix built from translate, then set from rotation for
\* x < 3, y < 3
transformOf(translate, rotation) ==
    LET mat == Matrix(NumSeq(<<4, 4>>),
                      Given(<<0, 0, 0, getX(translate),
                              0, 0, 0, getY(translate),
                              0, 0, 0, getZ(translate),
                              0, 0, 0, 1>>)).val
        bad == {k \in 1..16 :
                   /\ (k - 1) \div 4 < 3 /\ (k - 1) % 4 < 3
                   /\ get(rotation, <<Num((k - 1) \div 4), Num((k - 1) % 4)>>).err # "none"}
    IN IF bad # {}
       THEN Throw(get(rotation,
                      <<Num(((CHOOSE k \in bad : \A l \in bad : k <= l) - 1) \div 4),
                        Num(((CHOOSE k \in bad : \A l \in bad : k <= l) - 1) % 4)>>).err)
       ELSE Ok([mat EXCEPT !.data =
                   [k \in 1..16 |->
                       IF (k - 1) \div 4 < 3 /\ (k - 1) % 4 < 3
                       THEN get(rotation, <<Num((k - 1) \div 4), Num((k - 1) % 4)>>).val
                       ELSE mat.data[k]]])

\* getTransformMatrix checking only the number of rows of rotation
getTransformMatrixChecksRows(translate, rotation) ==
    IF ~is2D(rotation) THEN Throw("TypeError")
    ELSE IF rotation.dim[1] # 3 THEN Throw("TypeError")
    ELSE transformOf(translate, rotation)

\* getTransformMatrix(translate, rotation)
getTransformMatrix(translate, rotation) ==
    IF ~is2D(rotation) THEN Throw("TypeError")
    ELSE IF rotation.dim[1] # 3 \/ rotation.dim[2] # 3 THEN Throw("TypeError")
    ELSE transformOf(translate, rotation)

----------------------------------------------------------------------------
(* Calls.  A call records itself, the receiver as it found it, what it     *)
(* returned and the error it raised.                                       *)

NoResult == [kind |-> "none", val |-> <<>>]
\* no array and no instance
NoHeap == [arrays |-> <<>>, objs |-> <<>>, ext |-> {}]
NoCall == [op |-> "none", args |-> <<>>]

\* a call of a method that leaves the receiver alone and yields r
Returns(op, args, kind, r) ==
    /\ this # NoMatrix
    /\ call' = [op |-> op, args |-> args]
    /\ before' = this
    /\ err' = r.err
    /\ ret' = IF r.err = "none" THEN [kind |-> kind, val |-> r.val] ELSE NoResult
    /\ UNCHANGED <<this, orig, log, heap>>

\* a call of an in-place method, which ends with the receiver r.val
InPlace(op, args, r) ==
    /\ this # NoMatrix
    /\ Len(log) < MaxCalls
    /\ call' = [op |-> op, args |-> args]
    /\ before' = this
    /\ this' = r.val
    /\ err' = r.err
    /\ ret' = IF r.err = "none" THEN [kind |-> "this", val |-> <<>>] ELSE NoResult
    /\ log' = IF r.err = "none" THEN Append(log, op) ELSE log
    /\ UNCHANGED <<orig, heap>>

\* new Matrix(dim, data), when nothing has been constructed yet
New(dim, data) ==
    LET r == Matrix(dim, data) IN
    /\ this = NoMatrix
    /\ call = NoCall
    /\ call' = [op |-> "new", args |-> [dim |-> dim, data |-> data]]
    /\ err' = r.err
    /\ this' = IF r.err = "none" THEN r.val ELSE NoMatrix
    /\ orig' = this'
    /\ ret' = IF r.err = "none" THEN [kind |-> "this", val |-> <<>>] ELSE NoResult
    /\ UNCHANGED <<before, log, heap>>

GetIndex(indices) == Returns("getIndex", indices, "number", getIndex(this, indices))
GetIndices(index) == Returns("getIndices", index, "indices", getIndices(this, index))
Get(indices) == Returns("get", indices, "number", get(this, indices))
Set(value, indices) ==
    InPlace("set", [value |-> value, indices |-> indices], set(this, value, indices))
Fill(value) == InPlace("fill", value, fill(this, value))
ToFilled(value) == Returns("toFilled", value, "matrix", toFilled(this, value))
Map(cb) == Returns("map", cb, "matrix", map(this, cb))
WithMap(cb) == InPlace("withMap", cb, withMap(this, cb))
Transpose == InPlace("transpose", <<>>, transpose(this))
ToTransposed == Returns("toTransposed", <<>>, "matrix", toTransposed(this))
Copy == Returns("copy", <<>>, "matrix", copy(this))
Reshape(dim) == Returns("reshape", dim, "matrix", reshape(this, dim))
Slice(ranges) == Returns("slice", ranges, "matrix", slice(this, ranges))
\* slice one step at a time: the validation, a call of dfs, a return to a
\* level of dfs, the return of slice
SliceBegin(ranges) ==
    LET r == sliceBegin(this, ranges) IN
    /\ this # NoMatrix
    /\ call' = [op |-> "slice", args |-> ranges]
    /\ before' = this
    /\ err' = r.err
    /\ ret' = IF r.err = "none" THEN [kind |-> "dfs", val |-> r.val] ELSE NoResult
    /\ UNCHANGED <<this, orig, log, heap>>
DfsCall ==
    /\ ret.kind = "dfs" /\ ret.val.pc = "call"
    /\ ret' = [ret EXCEPT !.val = dfsCall(this, ret.val)]
    /\ UNCHANGED <<this, before, orig, call, err, log, heap>>
DfsReturn ==
    /\ ret.kind = "dfs" /\ ret.val.pc = "return" /\ ret.val.i >= 1
    /\ ret' = [ret EXCEPT !.val = dfsReturn(ret.val)]
    /\ UNCHANGED <<this, before, orig, call, err, log, heap>>
SliceEnd ==
    LET r == sliceEnd(ret.val) IN
    /\ ret.kind = "dfs"
    /\ ret.val.pc = "throw" \/ (ret.val.pc = "return" /\ ret.val.i = 0)
    /\ err' = r.err
    /\ ret' = IF r.err = "none" THEN [kind |-> "matrix", val |-> r.val] ELSE NoResult
    /\ UNCHANGED <<this, before, orig, call, log, heap>>
Add(mat) == Returns("add", mat, "matrix", add(this, mat))
Sub(mat) == Returns("sub", mat, "matrix", sub(this, mat))
WithAdd(mat) == InPlace("withAdd", mat, withAdd(this, mat))
WithSub(mat) == InPlace("withSub", mat, withSub(this, mat))
WithAddScalar(a) == InPlace("withAddScalar", a, withAddScalar(this, a))
WithSubScalar(a) == InPlace("withSubScalar", a, withSubScalar(this, a))
WithMulScalar(a) == InPlace("withMulScalar", a, withMulScalar(this, a))
PostMul(mat) == Returns("postMul", mat, "matrix", postMul(this, mat))
Identity(size) == Returns("identity", size, "matrix", identity(size))
PreMul(mat) == Returns("preMul", mat, "matrix", preMul(this, mat))
Det == Returns("det", <<>>, "number", det(this))
\* Vec.toVec(size, mat), the receiver being mat
ToVec(n) == Returns("toVec", n, "matrix", toVec(n, this))
Dot(mat) == Returns("dot", mat, "number", dot(this, mat))
\* v.x, v.y, v.z, v.w and v.xy, v.xyz, v.xyzw, v.wxyz
GetX == Returns("x", <<>>, "number", Ok(getX(this)))
GetY == Returns("y", <<>>, "number", Ok(getY(this)))
GetZ == Returns("z", <<>>, "number", Ok(getZ(this)))
GetW == Returns("w", <<>>, "number", Ok(getW(this)))
GetXy == Returns("xy", <<>>, "array", Ok(getXy(this)))
GetXyz == Returns("xyz", <<>>, "array", Ok(getXyz(this)))
GetXyzw == Returns("xyzw", <<>>, "array", Ok(getXyzw(this)))
GetWxyz == Returns("wxyz", <<>>, "array", Ok(getWxyz(this)))

\* v.x = value, ...: the assignment evaluates to the value assigned
Assign(op, value, r) ==
    /\ this # NoMatrix
    /\ call' = [op |-> op, args |-> value]
    /\ before' = this
    /\ this' = r.val
    /\ err' = r.err
    /\ ret' = [kind |-> "number", val |-> value]
    /\ UNCHANGED <<orig, log, heap>>

SetX(value) == Assign("set x", value, setX(this, value))
SetY(value) == Assign("set y", value, setY(this, value))
SetZ(value) == Assign("set z", value, setZ(this, value))
SetW(value) == Assign("set w", value, setW(this, value))
GetCrossMat == Returns("getCrossMat", <<>>, "matrix", getCrossMat(this))
Cross(mat) == Returns("cross", mat, "matrix", cross(this, mat))
\* getTransformMatrix(translate, rotation), the receiver being rotation
GetTransformMatrix(translate) ==
    Returns("getTransformMatrix", translate, "matrix",
            getTransformMatrix(translate, this))

----------------------------------------------------------------------------
(* The inputs drawn *)

Seqs(S, n) == UNION {[1..k -> S] : k \in 0..n}

\* the shapes of the matrices drawn
Shapes == {s \in Seqs(1..MaxDim, MaxRank) : Len(s) >= 1 /\ Product(s) <= MaxLen}

\* new Matrix(s, Array.from(new Array(len).keys())), as the tests build them
Arange(s) == Matrix(NumSeq(s), Given(Keys(Product(s)))).val
\* new Matrix(s)
Zeros(s) == Matrix(NumSeq(s), Omitted).val

\* the value written by set and fill, no element of an Arange
NewValue == 10

Constructed(m) ==
    /\ this = m
    /\ orig = m
    /\ before = m
    /\ call = NoCall
    /\ ret = NoResult
    /\ err = "none"
    /\ log = <<>>
    /\ heap = NoHeap

\* every sequence whose j-th entry is drawn from sets[j]
RECURSIVE Tuples(_)
Tuples(sets) ==
    IF sets = <<>> THEN {<<>>}
    ELSE {<<x>> \o t : x \in Head(sets), t \in Tuples(Tail(sets))}

\* the indices tried on an axis of length d: the integers of [-d-1, d], and
\* the non-integers 1/2 (inside the axis) and d + 1/2 (outside)
IndexVals(d) == {Num(n) : n \in (-(d + 1))..d} \cup {1, Num(d) + 1}

\* the argument lists tried on a receiver m: one index per axis, or one
\* index too few or too many
IndexArgs(m) ==
    Tuples([j \in 1..Len(m.dim) |-> IndexVals(m.dim[j])])
    \cup [1..(Len(m.dim) - 1) -> {0, 1, Num(MaxDim + 1)}]
    \cup [1..(Len(m.dim) + 1) -> {0, 1, Num(MaxDim + 1)}]

\* the flat offsets tried: the integers of [-1, length], and three non-integers
FlatArgs(m) ==
    {Num(n) : n \in (-1)..Len(m.data)} \cup {-1, 1, Num(Len(m.data)) + 1}

----------------------------------------------------------------------------
(* SpecIndex: one call of getIndex, getIndices, get or set on a matrix     *)
(* built as the tests build it                                             *)

InitArange == \E s \in Shapes : Constructed(Arange(s))

\* no call has been made on the receiver yet
Fresh == call = NoCall

NextIndex ==
    \/ Fresh /\ \E indices \in IndexArgs(this) : GetIndex(indices)
    \/ Fresh /\ \E index \in FlatArgs(this) : GetIndices(index)
    \/ Fresh /\ \E indices \in IndexArgs(this) : Get(indices)
    \/ Fresh /\ \E indices \in IndexArgs(this) : Set(NewValue, indices)

SpecIndex == InitArange /\ [][NextIndex]_vars

----------------------------------------------------------------------------
(* What the index mapping is meant to compute, stated without the code     *)

\* idx has one entry per axis of dim, each integral and in [-dim[j], dim[j])
ValidIndex(dim, idx) ==
    /\ Len(idx) = Len(dim)
    /\ \A j \in 1..Len(idx) :
          IsInteger(idx[j]) /\ Num(-dim[j]) <= idx[j] /\ idx[j] < Num(dim[j])

\* n_j: i_j when i_j >= 0, i_j + dim[j] when i_j < 0 (in integers)
Normalized(dim, idx) ==
    [j \in 1..Len(idx) |->
        IF idx[j] < 0 THEN Whole(idx[j]) + dim[j] ELSE Whole(idx[j])]

\* the product of dim[k] for k > j
RECURSIVE SuffixProduct(_, _)
SuffixProduct(dim, j) ==
    IF j >= Len(dim) THEN 1 ELSE dim[j + 1] * SuffixProduct(dim, j + 1)

\* the sum over j <= k of n[j] * SuffixProduct(dim, j)
RECURSIVE RowMajorUpTo(_, _, _)
RowMajorUpTo(dim, n, k) ==
    IF k = 0 THEN 0
    ELSE RowMajorUpTo(dim, n, k - 1) + n[k] * SuffixProduct(dim, k)
RowMajor(dim, n) == RowMajorUpTo(dim, n, Len(n))

\* the error the first offending index calls for, "none" if there is none
FirstIndexError(dim, idx) ==
    IF Len(idx) # Len(dim) THEN "ValueError"
    ELSE LET bad == {j \in 1..Len(idx) :
                        \/ ~IsInteger(idx[j])
                        \/ idx[j] < Num(-dim[j])
                        \/ idx[j] >= Num(dim[j])}
         IN IF bad = {} THEN "none"
            ELSE LET j == CHOOSE j \in bad : \A k \in bad : j <= k
                 IN IF IsInteger(idx[j]) THEN "RangeError" ELSE "ValueError"

\* C2 as stated: for every multi-index getIndex accepts, negative entries
\* included, getIndices(getIndex(idx)) is idx itself
C2_RoundTripIsIdentity ==
    (call.op = "getIndex" /\ err = "none") =>
        getIndices(this, Num(ret.val)) = Ok([j \in 1..Len(call.args) |-> Whole(call.args[j])])

\* C2 as amended: for every multi-index getIndex accepts,
\* getIndices(getIndex(idx)) is idx with every negative entry i_j replaced by
\* i_j + dim[j]; it is idx itself exactly when no entry is negative
C2_RoundTripNormalizes ==
    (call.op = "getIndex" /\ ValidIndex(this.dim, call.args)) =>
        /\ err = "none"
        /\ getIndices(this, Num(ret.val)) = Ok(Normalized(this.dim, call.args))
        /\ (getIndices(this, Num(ret.val)).val
               = [j \in 1..Len(call.args) |-> Whole(call.args[j])])
           <=> (\A j \in 1..Len(call.args) : call.args[j] >= 0)

C2_Witness ==
    /\ call.op = "getIndex" /\ err = "none"
    /\ Len(this.dim) = 3
    /\ \E j \in 1..3 : call.args[j] < 0 /\ this.dim[j] > 1
    /\ \E j \in 1..3 : call.args[j] > 0

\* C3: for every integer flat offset f with 0 <= f < data.length,
\* getIndices(f) returns one index per axis, each in [0, dim[j]), and getIndex
\* of those indices is f
C3_FlatRoundTrip ==
    (/\ call.op = "getIndices"
     /\ IsInteger(call.args) /\ 0 <= call.args
     /\ call.args < Num(Len(this.data))) =>
        /\ err = "none"
        /\ Len(ret.val) = Len(this.dim)
        /\ \A j \in 1..Len(ret.val) : ret.val[j] \in 0..(this.dim[j] - 1)
        /\ getIndex(this, NumSeq(ret.val)) = Ok(Whole(call.args))

C3_Witness ==
    /\ call.op = "getIndices" /\ err = "none"
    /\ Len(this.dim) = 3 /\ this.dim[2] # this.dim[3]
    /\ ret.val[1] > 0 /\ ret.val[3] > 0

\* C4: for every valid multi-index, getIndex is the row-major offset of the
\* normalised indices; get reads the element there, so a negative index i on
\* axis j reads what i + dim[j] reads, and on a buffer 0..len-1 get returns
\* the row-major offset itself
C4_RowMajorOffset ==
    (call.op \in {"getIndex", "get"} /\ ValidIndex(this.dim, call.args)) =>
        LET n == Normalized(this.dim, call.args)
            offset == RowMajor(this.dim, n)
        IN /\ err = "none"
           /\ call.op = "getIndex" => ret.val = offset
           /\ call.op = "get" =>
                 /\ ret.val = this.data[offset + 1]
                 /\ get(this, NumSeq(n)) = Ok(ret.val)
                 /\ this.data = Keys(Len(this.data)) => ret.val = offset
           /\ Len(n) = 3 =>
                 offset = n[1] * this.dim[2] * this.dim[3] + n[2] * this.dim[3] + n[3]

C4_Witness ==
    /\ call.op = "get" /\ err = "none"
    /\ this.dim = <<2, 1, 3>>
    /\ call.args = <<Num(-1), Num(0), Num(-2)>>
    /\ ret.val = 4

----------------------------------------------------------------------------
(* SpecNew: one call of the constructor *)

\* the entries tried in dim: -1, -1/2, 0, 1/2, 1, 3/2, ..., MaxDim
DimVals == (-2)..Num(MaxDim)
DimArgs == Seqs(DimVals, MaxRank)
\* the data tried: none, or the first n naturals for n up to MaxLen
DataArgs == {Omitted} \cup {Given(Keys(n)) : n \in 0..MaxLen}

InitNone == Constructed(NoMatrix)

NextNew == Fresh /\ \E dim \in DimArgs, data \in DataArgs : New(dim, data)

SpecNew == InitNone /\ [][NextNew]_vars

\* C6: new Matrix(dim, data) raises an invalid-value error exactly when dim
\* is empty, an entry of dim is <= 0 or non-integral, or data is supplied
\* with a length other than the product of dim; otherwise it succeeds with
\* that dim, and with product-of-dim zeros when data is omitted
C6_ConstructorErrors ==
    (call.op = "new") =>
        LET dim == call.args.dim
            data == call.args.data
            badDim == \/ Len(dim) = 0
                      \/ \E i \in 1..Len(dim) : dim[i] <= 0 \/ ~IsInteger(dim[i])
            whole == [i \in 1..Len(dim) |-> Whole(dim[i])]
            invalid == badDim \/ (data.present /\ Len(data.val) # Product(whole))
        IN /\ err = IF invalid THEN "ValueError" ELSE "none"
           /\ invalid => this = NoMatrix
           /\ ~invalid =>
                 /\ this.dim = whole
                 /\ data.present => this.data = data.val
                 /\ ~data.present =>
                       this.data = [i \in 1..Product(whole) |-> 0]

C6_Witness ==
    /\ call.op = "new" /\ err = "none"
    /\ call.args.dim = <<Num(2), Num(3)>>
    /\ ~call.args.data.present
    /\ this.data = <<0, 0, 0, 0, 0, 0>>

----------------------------------------------------------------------------
(* Spec: a matrix is constructed and then called, in place at most         *)
(* MaxCalls times                                                          *)

\* the largest size handed to Matrix.identity
MaxSize == 3

\* set: the last element, an index one past the first axis
SetArgs(m) ==
    {[j \in 1..Len(m.dim) |-> Num(-1)],
     [j \in 1..Len(m.dim) |-> IF j = 1 THEN Num(m.dim[1]) ELSE 0]}

\* the other matrix of add, sub, withAdd, withSub: of the receiver's shape,
\* with a longer last axis, with one axis more
Operands(m) ==
    {Arange(m.dim), Arange([m.dim EXCEPT ![Len(m.dim)] = @ + 1]),
     Arange(Append(m.dim, 1))}

\* the other matrix of postMul: one that fits the receiver's last axis, and
\* one of the receiver's own shape
MulOperands(m) == {Arange(<<m.dim[Len(m.dim)], 2>>), Arange(m.dim)}

\* reshape: to one axis, to a leading axis of 1, to an axis too many, to a
\* non-integral axis, to none
ReshapeArgs(m) ==
    {<<Num(Len(m.data))>>, <<Num(1), Num(Len(m.data))>>,
     <<Num(2), Num(Len(m.data))>>, <<Num(Len(m.data)), 1>>, <<>>}

\* slice: everything, the first index, the whole first axis, the first axis
\* backwards, an empty range, a range past the end
SliceFew(m) ==
    {<<>>, << <<0>> >>, << <<0, Num(m.dim[1])>> >>,
     << <<Num(-1), 0>> >>, << <<0, 0>> >>, << <<0, Num(m.dim[1] + 1)>> >>}

Init == \E s \in Shapes : Constructed(Arange(s)) \/ Constructed(Zeros(s))

\* The last call was the construction or changed the receiver.  Any other
\* call leaves this, orig and log as they were, so the state it reaches has
\* the successors of the state it was made in, calls and results alike:
\* they are explored from there.
AtRest ==
    \/ call.op = "none"
    \/ log # <<>> /\ call.op = log[Len(log)] /\ err = "none"

Next ==
    \/ AtRest /\ \E indices \in SetArgs(this) : Set(NewValue, indices)
    \/ AtRest /\ Fill(NewValue)
    \/ AtRest /\ \E cb \in {"timesLast", "throwsPastFirst"} : WithMap(cb)
    \/ AtRest /\ Transpose
    \/ AtRest /\ \E mat \in Operands(this) : WithAdd(mat)
    \/ AtRest /\ \E mat \in Operands(this) : WithSub(mat)
    \/ AtRest /\ WithAddScalar(1)
    \/ AtRest /\ WithSubScalar(1)
    \/ AtRest /\ WithMulScalar(2)
    \/ AtRest /\ \E size \in 0..MaxSize : Identity(size)
    \/ AtRest /\ Copy
    \/ AtRest /\ \E dim \in ReshapeArgs(this) : Reshape(dim)
    \/ AtRest /\ ToFilled(NewValue)
    \/ AtRest /\ \E cb \in {"timesFirst", "throwsPastFirst"} : Map(cb)
    \/ AtRest /\ ToTransposed
    \/ AtRest /\ \E ranges \in SliceFew(this) : Slice(ranges)
    \/ AtRest /\ \E mat \in Operands(this) : Add(mat)
    \/ AtRest /\ \E mat \in Operands(this) : Sub(mat)
    \/ AtRest /\ \E mat \in MulOperands(this) : PostMul(mat)

Spec == Init /\ [][Next]_vars

\* dim has an entry, every entry is an integer >= 1, and data has
\* product-of-dim elements
WellFormed(m) ==
    /\ Len(m.dim) >= 1
    /\ \A i \in 1..Len(m.dim) : m.dim[i] \in Nat /\ m.dim[i] >= 1
    /\ Len(m.data) = Product(m.dim)

\* C1: in every state reached by constructing a matrix and calling it, the
\* receiver and every matrix a call returned have a dim of length >= 1 whose
\* entries are integers >= 1 and a data of product-of-dim elements; a
\* reshape that returns has taken an integral dim
C1_ShapeInvariant ==
    /\ WellFormed(this)
    /\ ret.kind = "matrix" => WellFormed(ret.val)
    /\ (call.op = "reshape" /\ err = "none") => NumSeq(ret.val.dim) = call.args

C1_Witness ==
    /\ log = <<"transpose", "set">>
    /\ call.op = "slice" /\ err = "none"
    /\ Len(this.dim) = 2 /\ this.dim[1] # this.dim[2]
    /\ ret.val.dim # this.dim

\* t is the transpose of the 2D matrix m: the axes swapped, and t[x, y]
\* the element m[y, x]
IsTransposeOf(t, m) ==
    /\ t.dim = <<m.dim[2], m.dim[1]>>
    /\ Len(t.data) = Len(m.data)
    /\ \A x \in 0..(m.dim[2] - 1), y \in 0..(m.dim[1] - 1) :
          /\ get(t, <<Num(x), Num(y)>>).err = "none"
          /\ get(t, <<Num(x), Num(y)>>).val = get(m, <<Num(y), Num(x)>>).val

\* C7: for every 2D matrix, square or not, transpose() leaves the receiver
\* the transpose of what it was (axes swapped, [x, y] reading the old
\* [y, x]), and toTransposed() returns a matrix that is the transpose of
\* the receiver
C7_TransposeSwapsAxes ==
    /\ (call.op = "transpose" /\ is2D(before)) =>
          err = "none" /\ IsTransposeOf(this, before)
    /\ (call.op = "toTransposed" /\ is2D(this)) =>
          err = "none" /\ IsTransposeOf(ret.val, this)

\* C8: for every 2D matrix of any shape, two calls of transpose() leave the
\* receiver with its original shape and buffer
C8_TransposeTwice ==
    (log = <<"transpose", "transpose">> /\ call.op = "transpose") =>
        this = orig

----------------------------------------------------------------------------
(* SpecSlice: one call of slice on a matrix built as the tests build it *)

\* the largest |step| tried
MaxStep == 2

\* the bounds tried on an axis of length d: the integers of [-d-1, d+1], and 1/2
BoundVals(d) == {Num(n) : n \in (-(d + 1))..(d + 1)} \cup {1}
\* the steps tried: the integers of [-MaxStep, MaxStep], and 1/2
StepVals == {Num(n) : n \in (-MaxStep)..MaxStep} \cup {1}

\* every range tried on an axis of length d
RangeArgs(d) ==
    {<<r>> : r \in {Num(n) : n \in (-1)..d} \cup {1}}
    \cup {<<a, b>> : a \in BoundVals(d), b \in BoundVals(d)}
    \cup {<<a, b, c>> : a \in BoundVals(d), b \in BoundVals(d), c \in StepVals}

\* start and stop after the negative ones are counted from the end
NormBound(d, b) == IF b < 0 THEN Whole(b) + d ELSE Whole(b)

\* the ranges of C9 on an axis of length d: a single integer of [0, d), or a
\* pair of integral bounds (start in [-d, d), stop in [-d, d]) that ascends
PlainRanges(d) ==
    {<<Num(r)>> : r \in 0..(d - 1)}
    \cup {<<Num(p[1]), Num(p[2])>> :
              p \in {q \in ((-d)..(d - 1)) \X ((-d)..d) :
                        NormBound(d, Num(q[1])) < NormBound(d, Num(q[2]))}}

\* the first index, and the whole axis
FewRanges(d) == {<<0>>, <<0, Num(d)>>}

\* ranges whose start and stop are one position, and ranges at and past
\* the end of the axis
EmptyRanges(d) == {<<0, 0>>, <<0, Num(-d)>>, <<Num(-1), Num(d - 1), Num(1)>>}
EdgeRanges(d) == {<<Num(d)>>, <<0, Num(d + 1)>>, <<0, Num(d)>>}

\* the argument lists tried on a receiver m: plain ranges on the first m
\* axes; any range on one axis and the first index or the whole axis on the
\* others supplied; one range too many; a range of one position on one of
\* the first two axes and a range at the end of the axis on the other
SliceArgs(m) ==
    UNION {Tuples([j \in 1..k |-> PlainRanges(m.dim[j])]) : k \in 0..Len(m.dim)}
    \cup UNION {Tuples([j \in 1..k |->
                           IF j = a THEN RangeArgs(m.dim[j]) ELSE FewRanges(m.dim[j])]) :
                   k \in 1..Len(m.dim), a \in 1..Len(m.dim)}
    \cup [1..(Len(m.dim) + 1) -> {<<0>>}]
    \cup UNION {Tuples([j \in 1..2 |->
                           IF j = a THEN EmptyRanges(m.dim[j]) ELSE EdgeRanges(m.dim[j])]) :
                   a \in {b \in 1..2 : Len(m.dim) >= 2}}

NextSlice == Fresh /\ \E ranges \in SliceArgs(this) : Slice(ranges)

SpecSlice == InitArange /\ [][NextSlice]_vars

\* every range supplied is one of C9's
AllPlain(dim, ranges) ==
    /\ Len(ranges) <= Len(dim)
    /\ \A j \in 1..Len(ranges) : ranges[j] \in PlainRanges(dim[j])

\* o_j: r, start, or 0 on an unsupplied axis
PlainOffset(dim, ranges) ==
    [j \in 1..Len(dim) |->
        IF j > Len(ranges) THEN 0 ELSE NormBound(dim[j], ranges[j][1])]

\* the length of axis j: 1, stop - start, or dim[j] on an unsupplied axis
PlainLength(dim, ranges) ==
    [j \in 1..Len(dim) |->
        IF j > Len(ranges) THEN dim[j]
        ELSE IF Len(ranges[j]) = 1 THEN 1
        ELSE NormBound(dim[j], ranges[j][2]) - NormBound(dim[j], ranges[j][1])]

\* C9: a slice by m <= dim.length ranges, each a single integer of [0, dim[j])
\* or an ascending pair, returns a matrix with as many axes as the source,
\* axis j of length 1, stop - start, or dim[j] when unsupplied, whose element
\* [i] is the source's [o + i]; the source is unchanged
C9_PlainSlice ==
    (call.op = "slice" /\ AllPlain(before.dim, call.args)) =>
        LET o == PlainOffset(before.dim, call.args)
            n == PlainLength(before.dim, call.args)
        IN /\ err = "none"
           /\ ret.kind = "matrix"
           /\ Len(ret.val.dim) = Len(before.dim)
           /\ ret.val.dim = n
           /\ Len(ret.val.data) = Product(n)
           /\ \A i \in Tuples([j \in 1..Len(n) |-> 0..(n[j] - 1)]) :
                 ret.val.data[RowMajor(n, i) + 1]
                   = before.data[RowMajor(before.dim,
                                          [j \in 1..Len(n) |-> o[j] + i[j]]) + 1]
           /\ this = before

C9_Witness ==
    /\ call.op = "slice" /\ err = "none"
    /\ this.dim = <<2, 1, 3>>
    /\ call.args = << <<Num(1)>>, <<Num(-1), Num(1)>> >>
    /\ ret.val = [dim |-> <<1, 1, 3>>, data |-> <<3, 4, 5>>]

\* the range (a pair or a triple, in halves) passes the validation of slice
\* on an axis of length d: integral bounds, start in [-d, d), stop in
\* [-d, d], an integral step # 0 whose sign agrees with the order of start
\* and stop
PassesValidation(d, range) ==
    /\ Len(range) \in {2, 3}
    /\ IsInteger(range[1]) /\ Num(-d) <= range[1] /\ range[1] < Num(d)
    /\ IsInteger(range[2]) /\ Num(-d) <= range[2] /\ range[2] <= Num(d)
    /\ Len(range) = 3 =>
          /\ IsInteger(range[3]) /\ range[3] # 0
          /\ NormBound(d, range[1]) < NormBound(d, range[2]) => range[3] > 0
          /\ NormBound(d, range[2]) < NormBound(d, range[1]) => range[3] < 0

\* C10: a slice of a one-axis matrix by a range that passes validation,
\* descending ranges and strides included, returns a matrix whose axis has
\* length floor(|start - stop| / |step|) and whose k-th entry is the source
\* element at start + k * step
C10_StridedSlice ==
    (/\ call.op = "slice" /\ Len(before.dim) = 1 /\ Len(call.args) = 1
     /\ PassesValidation(before.dim[1], call.args[1])) =>
        LET range == call.args[1]
            start == NormBound(before.dim[1], range[1])
            stop == NormBound(before.dim[1], range[2])
            step == IF Len(range) = 3 THEN Whole(range[3])
                    ELSE IF stop > start THEN 1 ELSE -1
            length == Abs(start - stop) \div Abs(step)
        IN /\ err = "none"
           /\ ret.val.dim = <<length>>
           /\ \A k \in 0..(length - 1) :
                 ret.val.data[k + 1] = before.data[start + k * step + 1]

\* the range (in halves) names a bound that is non-integral or outside
\* [-d, d], an explicit step of 0, or a step whose sign disagrees with the
\* order of start and stop
Rejected(d, range) ==
    \/ \E k \in 1..Len(range) :
           k <= 2 /\ (~IsInteger(range[k]) \/ range[k] < Num(-d) \/ range[k] > Num(d))
    \/ Len(range) >= 2 /\ range[1] = Num(d)
    \/ Len(range) = 3 /\ range[3] = 0
    \/ /\ Len(range) = 3
       /\ IsInteger(range[1]) /\ IsInteger(range[2])
       /\ \/ NormBound(d, range[1]) < NormBound(d, range[2]) /\ range[3] < 0
          \/ NormBound(d, range[2]) < NormBound(d, range[1]) /\ range[3] > 0

\* the error a bound b calls for when it must be an integer of [lo, hi]
BoundFault(b, lo, hi) ==
    IF ~IsInteger(b) THEN "ValueError"
    ELSE IF b < Num(lo) \/ b > Num(hi) THEN "RangeError"
    ELSE "none"

\* the error one range calls for on an axis of length d: a single number
\* outside [0, d) a range error, inside and non-integral an invalid-value
\* error; of a pair or triple start, then stop, then the step decide
RangeFault(d, range) ==
    IF Len(range) = 1
    THEN IF range[1] < 0 \/ range[1] >= Num(d) THEN "RangeError"
         ELSE IF ~IsInteger(range[1]) THEN "ValueError" ELSE "none"
    ELSE IF BoundFault(range[1], -d, d - 1) # "none"
         THEN BoundFault(range[1], -d, d - 1)
    ELSE IF BoundFault(range[2], -d, d) # "none"
         THEN BoundFault(range[2], -d, d)
    ELSE IF Len(range) = 3 /\ Rejected(d, range) THEN "ValueError"
    ELSE IF Len(range) = 3 /\ ~IsInteger(range[3]) THEN "ValueError"
    ELSE "none"

\* the error an argument list calls for: too many ranges, or the fault of
\* the first range that has one
SliceFault(dim, ranges) ==
    IF Len(ranges) > Len(dim) THEN "ValueError"
    ELSE LET bad == {j \in 1..Len(ranges) : RangeFault(dim[j], ranges[j]) # "none"}
         IN IF bad = {} THEN "none"
            ELSE RangeFault(dim[CHOOSE j \in bad : \A k \in bad : j <= k],
                            ranges[CHOOSE j \in bad : \A k \in bad : j <= k])

\* C11 as stated: slice raises an invalid-value error and returns no matrix
\* when more ranges are supplied than dim.length, when an explicit step is
\* 0, when the sign of step disagrees with the order of start and stop, or
\* when a bound is non-integral or outside [-dim[j], dim[j]] (a start equal
\* to dim[j] included)
C11_SliceErrorsAreInvalidValue ==
    (/\ call.op = "slice"
     /\ \/ Len(call.args) > Len(before.dim)
        \/ \E j \in 1..Len(call.args) :
               j <= Len(before.dim) /\ Rejected(before.dim[j], call.args[j])) =>
        err = "ValueError" /\ ret = NoResult

\* C11 as amended: in each of those cases slice raises an error, returns no
\* matrix and leaves the receiver alone; the error is the invalid-value
\* error for too many ranges, and otherwise the one the first faulty range
\* calls for: a range error for an integral bound outside its interval (and
\* for a single number outside [0, dim[j]), integral or not), an
\* invalid-value error for a non-integral bound or step, a step of 0 and a
\* step of the wrong sign.  A list with no fault passes validation: a stop
\* equal to dim[j] is accepted
C11_SliceErrors ==
    (call.op = "slice") =>
        LET fault == SliceFault(before.dim, call.args) IN
        /\ (\/ Len(call.args) > Len(before.dim)
            \/ \E j \in 1..Len(call.args) :
                   j <= Len(before.dim) /\ Rejected(before.dim[j], call.args[j])) =>
              fault # "none"
        /\ fault # "none" => err = fault /\ ret = NoResult /\ this = before
        /\ Len(call.args) > Len(before.dim) => err = "ValueError"
        /\ (fault = "none" /\ AllPlain(before.dim, call.args)) => err = "none"
        /\ (fault = "none" /\ err # "none") => err = "ValueError"

C11_Witness ==
    /\ call.op = "slice" /\ err = "RangeError"
    /\ this.dim = <<2, 3>>
    /\ call.args = << <<0, Num(2)>>, <<Num(3), 0, 0>> >>

----------------------------------------------------------------------------
(* SpecPair: one call, on a matrix built as the tests build it, of a       *)
(* method that takes another matrix                                        *)

\* the matrices of the test "Matrix multiplies correctly"
MulTestLeft == Matrix(NumSeq(<<3, 2>>), Given(<<5, 2, 1, 4, 3, 0>>)).val
MulTestRight == Matrix(NumSeq(<<2, 5>>), Given(<<9, 1, 0, 5, 3, 8, 7, 2, 4, 6>>)).val
MulTestProduct ==
    [dim |-> <<3, 5>>,
     data |-> <<61, 19, 4, 33, 27, 41, 29, 8, 21, 27, 27, 3, 0, 15, 9>>]

\* the other matrix: of every shape drawn, its elements counted down from
\* its length so that it differs from the receiver
OtherMatrices ==
    {[Arange(s) EXCEPT !.data = [i \in 1..Product(s) |-> Product(s) + 1 - i]] :
        s \in Shapes} \cup {MulTestLeft, MulTestRight}

\* new Vec(3, [1, 2, 3]), the vector of the test "Vector constructs correctly"
Translate == Matrix(NumSeq(<<3, 1>>), Given(<<1, 2, 3>>)).val

InitPair ==
    \/ \E s \in Shapes : Constructed(Arange(s))
    \/ Constructed(MulTestLeft)
    \/ Constructed(MulTestRight)
    \/ Constructed(Arange(<<3, 3>>))

NextPair ==
    \/ Fresh /\ \E mat \in OtherMatrices : PostMul(mat)
    \/ Fresh /\ \E mat \in OtherMatrices : PreMul(mat)
    \/ Fresh /\ \E mat \in OtherMatrices : Add(mat)
    \/ Fresh /\ \E mat \in OtherMatrices : Sub(mat)
    \/ Fresh /\ \E mat \in OtherMatrices : WithAdd(mat)
    \/ Fresh /\ \E mat \in OtherMatrices : WithSub(mat)
    \/ Fresh /\ Transpose
    \/ Fresh /\ Det
    \/ Fresh /\ GetTransformMatrix(Translate)

SpecPair == InitPair /\ [][NextPair]_vars

\* the sum over k < n of a[i, k] * b[k, j], read from the row-major buffers
RECURSIVE InnerProduct(_, _, _, _, _)
InnerProduct(a, b, i, j, n) ==
    IF n = 0 THEN 0
    ELSE InnerProduct(a, b, i, j, n - 1)
         + a.data[i * a.dim[2] + (n - 1) + 1] * b.data[(n - 1) * b.dim[2] + j + 1]

\* p is the product a b of the r x n matrix a and the n x c matrix b
IsProduct(p, a, b) ==
    /\ p.dim = <<a.dim[1], b.dim[2]>>
    /\ Len(p.data) = a.dim[1] * b.dim[2]
    /\ \A i \in 0..(a.dim[1] - 1), j \in 0..(b.dim[2] - 1) :
          p.data[i * b.dim[2] + j + 1] = InnerProduct(a, b, i, j, a.dim[2])

\* C12: for a 2D receiver A of shape r x n and a 2D B of shape n x c,
\* A.postMul(B) returns a new matrix of shape [r, c] whose [i, j] is the sum
\* over k < n of A[i, k] * B[k, j]; A.preMul(B) is B.postMul(A); the
\* receiver is unchanged; the test's product comes out as the test says
C12_PostMul ==
    /\ (/\ call.op = "postMul" /\ is2D(before) /\ is2D(call.args)
        /\ before.dim[2] = call.args.dim[1]) =>
          /\ err = "none" /\ ret.kind = "matrix"
          /\ IsProduct(ret.val, before, call.args)
          /\ this = before
    /\ (/\ call.op = "preMul" /\ is2D(before) /\ is2D(call.args)
        /\ call.args.dim[2] = before.dim[1]) =>
          /\ err = "none" /\ ret.kind = "matrix"
          /\ IsProduct(ret.val, call.args, before)
          /\ this = before
    /\ call.op = "preMul" =>
          /\ err = postMul(call.args, before).err
          /\ err = "none" => ret.val = postMul(call.args, before).val
    /\ (call.op = "postMul" /\ before = MulTestLeft /\ call.args = MulTestRight) =>
          ret.val = MulTestProduct

C12_Witness ==
    /\ call.op = "postMul" /\ err = "none"
    /\ this = MulTestLeft /\ call.args = MulTestRight
    /\ ret.val = MulTestProduct

----------------------------------------------------------------------------
(* SpecDet: one call of det on a square matrix *)

\* the entries drawn lie in [-MaxEntry, MaxEntry]
MaxEntry == 1
\* the largest size handed to Matrix.identity before det
MaxIdentity == 4

\* the matrices of the test "Matrix determinant calculated correctly"
DetTest1 == Matrix(NumSeq(<<1, 1>>), Given(<<12>>)).val
DetTest2 == Matrix(NumSeq(<<2, 2>>), Given(<<5, 2, 3, 9>>)).val
DetTest4 ==
    Matrix(NumSeq(<<4, 4>>),
           Given(<<1, 1, 1, 1, 1, 2, 4, 8, 1, -2, 4, -8, 1, 3, 9, 27>>)).val

\* the permutations of 0..n-1
Perms(n) ==
    {p \in [0..(n - 1) -> 0..(n - 1)] :
        \A i \in 0..(n - 1), j \in 0..(n - 1) : i # j => p[i] # p[j]}

\* the n x n matrix with a 1 at [i, p[i]] and 0 elsewhere
PermutationMatrix(n, p) ==
    Matrix(<<Num(n), Num(n)>>,
           Given([k \in 1..(n * n) |-> Bit(p[(k - 1) \div n] = (k - 1) % n)])).val

\* the square matrices of size n drawn: a first row over
\* [-MaxEntry, MaxEntry] and the other rows over [0, MaxEntry] (the
\* determinant and the diagonal scheme are both linear in each entry)
SquareMatrices(n) ==
    {Matrix(<<Num(n), Num(n)>>, Given(a \o b)).val :
        a \in [1..n -> (-MaxEntry)..MaxEntry],
        b \in [1..(n * n - n) -> 0..MaxEntry]}

InitDet ==
    \/ \E n \in 1..3 : \E m \in SquareMatrices(n) : Constructed(m)
    \/ \E p \in Perms(4) : Constructed(PermutationMatrix(4, p))
    \/ \E n \in 1..MaxIdentity : Constructed(identity(n).val)
    \/ \E m \in {DetTest1, DetTest2, DetTest4} : Constructed(m)

NextDet == Fresh /\ Det

SpecDet == InitDet /\ [][NextDet]_vars

\* the element [i, j] of a 2D matrix, read from the row-major buffer
Elem(m, i, j) == m.data[i * m.dim[2] + j + 1]

\* the number of pairs i < j with p[i] > p[j]
Inversions(n, p) ==
    Cardinality({q \in (0..(n - 1)) \X (0..(n - 1)) : q[1] < q[2] /\ p[q[1]] > p[q[2]]})

\* the product over i < k of m[i, p[i]]
RECURSIVE PermProduct(_, _, _)
PermProduct(m, p, k) ==
    IF k = 0 THEN 1 ELSE PermProduct(m, p, k - 1) * Elem(m, k - 1, p[k - 1])

\* the sum over the permutations ps of sign(p) * the product of m[i, p[i]]
RECURSIVE LeibnizSum(_, _)
LeibnizSum(m, ps) ==
    IF ps = {} THEN 0
    ELSE LET p == CHOOSE p \in ps : TRUE IN
         ((IF Inversions(m.dim[1], p) % 2 = 0 THEN 1 ELSE -1)
             * PermProduct(m, p, m.dim[1]))
         + LeibnizSum(m, ps \ {p})

\* the determinant of the square matrix m
Determinant(m) == LeibnizSum(m, Perms(m.dim[1]))

\* the cofactor expansion of a 3 x 3 matrix along its first row
Cofactor3(m) ==
    Elem(m, 0, 0) * (Elem(m, 1, 1) * Elem(m, 2, 2) - Elem(m, 1, 2) * Elem(m, 2, 1))
    - Elem(m, 0, 1) * (Elem(m, 1, 0) * Elem(m, 2, 2) - Elem(m, 1, 2) * Elem(m, 2, 0))
    + Elem(m, 0, 2) * (Elem(m, 1, 0) * Elem(m, 2, 1) - Elem(m, 1, 1) * Elem(m, 2, 0))

\* C13: for a square matrix of size 1, 2 or 3, det() returns the
\* determinant: the sole element for size 1, a*d - b*c for size 2, and for
\* size 3 the value of the cofactor expansion
C13_DetUpTo3 ==
    (call.op = "det" /\ isSquare(before) /\ before.dim[1] <= 3) =>
        /\ err = "none" /\ ret.kind = "number"
        /\ ret.val = Determinant(before)
        /\ before.dim[1] = 1 => ret.val = before.data[1]
        /\ before.dim[1] = 2 =>
              ret.val = Elem(before, 0, 0) * Elem(before, 1, 1)
                        - Elem(before, 0, 1) * Elem(before, 1, 0)
        /\ before.dim[1] = 3 => ret.val = Cofactor3(before)
        /\ this = before

C13_Witness ==
    /\ call.op = "det" /\ err = "none"
    /\ this.dim = <<3, 3>>
    /\ this.data = <<-1, 1, 0, 0, 1, 1, 1, 0, 1>>
    /\ ret.val = 0

\* C14: for every 4 x 4 matrix det() returns the determinant
C14_DetOf4 ==
    (call.op = "det" /\ before.dim = <<4, 4>>) =>
        err = "none" /\ ret.val = Determinant(before)

\* C15: Matrix.identity(n) is the n x n matrix with 1 at [i, i] and 0
\* elsewhere, and its det() is 1, for every n from 1 to MaxIdentity
C15_IdentityDet ==
    \A n \in 1..MaxIdentity :
        LET id == identity(n) IN
        /\ id.err = "none"
        /\ id.val.dim = <<n, n>>
        /\ \A i \in 0..(n - 1), j \in 0..(n - 1) :
              get(id.val, <<Num(i), Num(j)>>) = Ok(IF i = j THEN 1 ELSE 0)
        /\ (call.op = "det" /\ before = id.val) => err = "none" /\ ret.val = 1

C15_Witness ==
    /\ call.op = "det" /\ err = "none"
    /\ this = identity(MaxIdentity).val
    /\ ret.val = 1

----------------------------------------------------------------------------
(* Failed calls *)

\* the in-place methods of Matrix
InPlaceOps ==
    {"set", "fill", "withMap", "transpose", "withAdd", "withSub",
     "withAddScalar", "withSubScalar", "withMulScalar"}

\* C16: whenever an in-place operation ends by raising an error, the
\* receiver's shape and every element of its buffer are what they were
\* before the call
C16_FailedCallLeavesReceiver ==
    (call.op \in InPlaceOps /\ err # "none") => this = before

----------------------------------------------------------------------------
(* SpecHeap: arrays and instances by address.  An array lives at an        *)
(* address of heap.arrays; an instance holds the addresses of its dim and  *)
(* its data; heap.ext are the arrays the caller holds (those it passed to  *)
(* the constructor, those shape returned).  A write to an array is seen    *)
(* by every holder of its address.                                         *)

\* instances created in one run
MaxObjects == 2

\* [...array]: a new array with the elements of the one at address a
spread(h, a) == [h EXCEPT !.arrays = Append(@, h.arrays[a])]

\* the constructor keeping the caller's data array instead of copying it
newMatrixKeepsData(h, dim, data) ==
    LET r == Matrix(NumSeq(h.arrays[dim]),
                    IF data.present THEN Given(h.arrays[data.val]) ELSE Omitted)
        n == Len(h.arrays)
    IN IF r.err # "none" THEN [err |-> r.err, heap |-> h]
       ELSE [err |-> "none",
             heap |-> [h EXCEPT
                 !.arrays = @ \o <<r.val.dim, r.val.data>>,
                 !.objs = Append(@, [dim |-> n + 1,
                                     data |-> IF data.present THEN data.val
                                              ELSE n + 2])]]

\* new Matrix(dim, data) on the arrays at the addresses dim and data:
\* this.dim = [...dim] and this.data = [...data] are new arrays
newMatrix(h, dim, data) ==
    LET r == Matrix(NumSeq(h.arrays[dim]),
                    IF data.present THEN Given(h.arrays[data.val]) ELSE Omitted)
        n == Len(h.arrays)
    IN IF r.err # "none" THEN [err |-> r.err, heap |-> h]
       ELSE [err |-> "none",
             heap |-> [h EXCEPT
                 !.arrays = @ \o <<r.val.dim, r.val.data>>,
                 !.objs = Append(@, [dim |-> n + 1, data |-> n + 2])]]

\* copy(): new Matrix(this.dim, this.data)
copyRef(h, o) == newMatrix(h, h.objs[o].dim, Given(h.objs[o].data))
\* reshape(dim): new Matrix(dim, this.data)
reshapeRef(h, o, dim) == newMatrix(h, dim, Given(h.objs[o].data))
\* map(callback): new Matrix(this.dim, this.data.map(...)), the mapped
\* array being a new one
mapRef(h, o) ==
    LET mapped == [i \in 1..Len(h.arrays[h.objs[o].data]) |->
                      h.arrays[h.objs[o].data][i] + 1]
    IN newMatrix([h EXCEPT !.arrays = Append(@, mapped)],
                 h.objs[o].dim, Given(Len(h.arrays) + 1))
\* get shape(): [...this.dim], handed to the caller
shapeRef(h, o) ==
    [spread(h, h.objs[o].dim) EXCEPT !.ext = @ \cup {Len(h.arrays) + 1}]
\* this.data[i] = value
setRef(h, o, i, value) == [h EXCEPT !.arrays[h.objs[o].data][i] = value]
\* fill(value): this.data.fill(value)
fillRef(h, o, value) ==
    [h EXCEPT !.arrays[h.objs[o].data] =
        [i \in 1..Len(h.arrays[h.objs[o].data]) |-> value]]

\* a call at the level of addresses that writes to no array it was given
HeapCall(op, target, e, h) ==
    /\ call' = [op |-> op, args |-> target]
    /\ err' = e
    /\ heap' = h
    /\ UNCHANGED <<this, before, orig, ret, log>>

\* a write to the array of an instance or of the caller, at most MaxCalls
\* in one run
HeapMutation(op, target, h) ==
    /\ Len(log) < MaxCalls
    /\ call' = [op |-> op, args |-> target]
    /\ err' = "none"
    /\ heap' = h
    /\ log' = Append(log, op)
    /\ UNCHANGED <<this, before, orig, ret>>

\* the instances there are, and whether one more may be made (shape is
\* asked for once: the caller holds its own two arrays and one more)
Objects == 1..Len(heap.objs)
Room == Len(heap.objs) < MaxObjects

HeapNew(dim, data) ==
    LET r == newMatrix(heap, dim, data) IN HeapCall("new", 0, r.err, r.heap)
HeapCopy(o) == LET r == copyRef(heap, o) IN HeapCall("copy", o, r.err, r.heap)
HeapReshape(o, dim) ==
    LET r == reshapeRef(heap, o, dim) IN HeapCall("reshape", o, r.err, r.heap)
HeapMap(o) == LET r == mapRef(heap, o) IN HeapCall("map", o, r.err, r.heap)
HeapShape(o) == HeapCall("shape", o, "none", shapeRef(heap, o))
HeapSet(o) == HeapMutation("set", o, setRef(heap, o, 1, NewValue))
HeapFill(o) == HeapMutation("fill", o, fillRef(heap, o, NewValue))
\* the caller writes to an array it holds
HeapWrite(a, value) ==
    HeapMutation("write", a, [heap EXCEPT !.arrays[a][1] = value])

\* the caller begins with a dim array and a data array of its own
InitHeap ==
    /\ this = NoMatrix /\ before = NoMatrix /\ orig = NoMatrix
    /\ call = NoCall /\ ret = NoResult /\ err = "none" /\ log = <<>>
    /\ \E s \in {<<2>>, <<1, 2>>, <<2, 1>>} :
          heap = [arrays |-> <<s, Keys(Product(s))>>, objs |-> <<>>, ext |-> {1, 2}]

NextHeap ==
    \/ Room /\ \E d \in heap.ext, a \in heap.ext : HeapNew(d, Given(a))
    \/ Room /\ \E d \in heap.ext : HeapNew(d, Omitted)
    \/ Room /\ \E o \in Objects : HeapCopy(o)
    \/ Room /\ \E o \in Objects, d \in heap.ext : HeapReshape(o, d)
    \/ Room /\ \E o \in Objects : HeapMap(o)
    \/ Cardinality(heap.ext) < 3 /\ \E o \in Objects : HeapShape(o)
    \/ \E o \in Objects : HeapSet(o)
    \/ \E o \in Objects : HeapFill(o)
    \/ \E a \in heap.ext : HeapWrite(a, 1)

SpecHeap == InitHeap /\ [][NextHeap]_vars

\* what instance o reads as its dim and data in heap h
View(h, o) == [dim |-> h.arrays[h.objs[o].dim], data |-> h.arrays[h.objs[o].data]]

\* C17: every step leaves the dim and data of every instance as they were,
\* except those of the receiver of an in-place call; it leaves every array
\* the caller holds as it was, except the one the caller writes to; so no
\* result-producing call changes its receiver or arguments, and no
\* mutation of an instance, of an array passed to the constructor or of an
\* array returned by shape reaches another instance
C17_NoSharedStorage ==
    [][/\ \A o \in Objects :
             \/ call'.op \in {"set", "fill"} /\ call'.args = o
             \/ View(heap', o) = View(heap, o)
       /\ \A a \in heap.ext :
             \/ call'.op = "write" /\ call'.args = a
             \/ heap'.arrays[a] = heap.arrays[a]]_vars

\* two instances, the second a copy of the first, the first written to
\* after the copy was taken
C17_Witness ==
    /\ Len(heap.objs) = 2
    /\ heap.objs[2].data # heap.objs[1].data
    /\ call.op = "set" /\ call.args = 1
    /\ View(heap, 1).data = <<NewValue, 1>>
    /\ View(heap, 2).data = <<0, 1>>
    /\ heap.arrays[2] = <<0, 1>>

----------------------------------------------------------------------------
(* Unsupported shapes *)

\* a and b differ in the number of axes or in the size of an axis
ShapesDiffer(a, b) ==
    \/ Len(a.dim) # Len(b.dim)
    \/ \E i \in 1..Len(a.dim) : i <= Len(b.dim) /\ a.dim[i] # b.dim[i]

\* C18: each call on a shape it does not support raises a
\* structural-mismatch error, yields no result and leaves the receiver
\* alone: transpose, postMul and det on a receiver that is not 2D; postMul
\* with an argument that is not 2D or whose first axis is not the
\* receiver's second; det on a 2D matrix that is not square; add, sub,
\* withAdd and withSub on operands of different shapes; getTransformMatrix
\* with a rotation that is not 2D of shape 3 x 3
C18_ShapeErrors ==
    LET unsupported ==
            \/ call.op \in {"transpose", "postMul", "det"} /\ Len(before.dim) # 2
            \/ call.op = "postMul" /\ Len(before.dim) = 2
                  /\ (Len(call.args.dim) # 2 \/ before.dim[2] # call.args.dim[1])
            \/ call.op = "det" /\ Len(before.dim) = 2 /\ before.dim[1] # before.dim[2]
            \/ call.op \in {"add", "sub", "withAdd", "withSub"}
                  /\ ShapesDiffer(before, call.args)
            \/ call.op = "getTransformMatrix" /\ before.dim # <<3, 3>>
    IN unsupported => err = "TypeError" /\ ret = NoResult /\ this = before

C18_Witness ==
    /\ call.op = "getTransformMatrix" /\ err = "TypeError"
    /\ this.dim = <<3, 2>>

----------------------------------------------------------------------------
(* SpecVec: one call of Vec.toVec on a matrix, or of dot on a Vec *)

\* the sizes of a Vec: 2 | 3 | 4
VecSizes == {2, 3, 4}

\* new Vec(n, data) with data over the values vals
Vecs(n, vals) == {Matrix(<<Num(n), Num(1)>>, Given(d)).val : d \in [1..n -> vals]}

\* the matrices of the tests "Vector casting correctly" and "Dot product
\* calculated correctly"
VecLike1 == Matrix(NumSeq(<<2, 1>>), Given(<<100, -200>>)).val
DotTest1 == Matrix(NumSeq(<<2, 1>>), Given(<<5, 8>>)).val
DotTest2 == Matrix(NumSeq(<<4, 1>>), Given(<<-10, 7, 9, -12>>)).val
\* the vectors of the test "Vector cross product calculated correctly"
CrossTest1 == Matrix(NumSeq(<<3, 1>>), Given(<<1, 3, 4>>)).val
CrossTest2 == Matrix(NumSeq(<<3, 1>>), Given(<<2, 7, -5>>)).val
\* the vectors of the tests "Vector attributes accessed correctly" and
\* "Vector multi-attributes accessed correctly"
AttrTest2 == Matrix(NumSeq(<<2, 1>>), Given(<<1, 2>>)).val
AttrTest3 == Matrix(NumSeq(<<3, 1>>), Given(<<3, 4, 5>>)).val
AttrTest4 == Matrix(NumSeq(<<4, 1>>), Given(<<6, 7, 8, 9>>)).val
MultiAttrTest == Matrix(NumSeq(<<3, 1>>), Given(<<23, 5, 12>>)).val

\* the receivers: the Vecs over [-MaxEntry, MaxEntry], a matrix of every
\* shape drawn, the column matrices [n, 1] up to MaxLen, the tests' own
InitVec ==
    \/ \E n \in VecSizes : \E v \in Vecs(n, (-MaxEntry)..MaxEntry) : Constructed(v)
    \/ \E s \in Shapes : Constructed(Arange(s))
    \/ \E n \in 1..MaxLen : Constructed(Arange(<<n, 1>>))
    \/ \E m \in {VecLike1, DotTest1, DotTest2, CrossTest1} : Constructed(m)
    \/ \E m \in {AttrTest2, AttrTest3, AttrTest4, MultiAttrTest} : Constructed(m)

\* the receiver is a Vec
IsVec(m) == isVector(m) /\ getSize(m) \in VecSizes

\* the other operand of dot: the Vecs over [0, MaxEntry] with a last
\* element that is not 0, a matrix that is no vector, the tests' own
DotOperands ==
    UNION {{v \in Vecs(n, 0..MaxEntry) : v.data[n] # 0} : n \in VecSizes}
    \cup {Arange(<<1, 2>>), DotTest1, DotTest2}

\* the other operand of cross: those of dot, the size-3 Vecs over
\* [-MaxEntry, MaxEntry], the test's own
CrossOperands == DotOperands \cup Vecs(3, (-MaxEntry)..MaxEntry) \cup {CrossTest2}

\* the values assigned to an axis
AssignedValues == {NewValue, -NewValue}

NextVec ==
    \/ Fresh /\ \E n \in VecSizes : ToVec(n)
    \/ Fresh /\ IsVec(this) /\ \E mat \in DotOperands : Dot(mat)
    \/ Fresh /\ IsVec(this) /\ GetCrossMat
    \/ Fresh /\ isVector(this) /\ GetX
    \/ Fresh /\ isVector(this) /\ GetY
    \/ Fresh /\ isVector(this) /\ GetZ
    \/ Fresh /\ isVector(this) /\ GetW
    \/ Fresh /\ isVector(this) /\ GetXy
    \/ Fresh /\ isVector(this) /\ GetXyz
    \/ Fresh /\ isVector(this) /\ GetXyzw
    \/ Fresh /\ isVector(this) /\ GetWxyz
    \/ Fresh /\ isVector(this) /\ \E value \in AssignedValues : SetX(value)
    \/ Fresh /\ isVector(this) /\ \E value \in AssignedValues : SetY(value)
    \/ Fresh /\ isVector(this) /\ \E value \in AssignedValues : SetZ(value)
    \/ Fresh /\ isVector(this) /\ \E value \in AssignedValues : SetW(value)
    \/ Fresh /\ IsVec(this) /\ \E mat \in CrossOperands : Cross(mat)

SpecVec == InitVec /\ [][NextVec]_vars

\* C19: for N in {2, 3, 4} and a matrix mat of shape [n, 1], toVec(N, mat)
\* returns a new Vec of shape [N, 1] whose element i is mat[i, 0] for
\* i < min(N, n) and 0 from there on; for a matrix not of shape [n, 1] it
\* raises an invalid-value error; a size-2 vector cast up to size 4 and
\* back down to size 2 comes back with its two values
C19_ToVec ==
    (call.op = "toVec") =>
        LET n == call.args
            isColumn == Len(before.dim) = 2 /\ before.dim[2] = 1
        IN /\ isColumn =>
                 /\ err = "none" /\ ret.kind = "matrix"
                 /\ ret.val.dim = <<n, 1>>
                 /\ Len(ret.val.data) = n
                 /\ \A i \in 0..(n - 1) :
                       ret.val.data[i + 1] =
                           IF i < n /\ i < before.dim[1] THEN before.data[i + 1] ELSE 0
                 /\ this = before
           /\ ~isColumn => err = "ValueError" /\ ret = NoResult
           /\ (isColumn /\ before.dim[1] = 2 /\ n = 4) =>
                 /\ toVec(2, ret.val).err = "none"
                 /\ toVec(2, ret.val).val = before

C19_Witness ==
    /\ call.op = "toVec" /\ call.args = 4 /\ err = "none"
    /\ this = VecLike1
    /\ ret.val.data = <<100, -200, 0, 0>>
    /\ toVec(2, ret.val).val.data = <<100, -200>>

\* the sum over i < n of a_i * b_i
RECURSIVE SumProducts(_, _, _)
SumProducts(a, b, n) ==
    IF n = 0 THEN 0 ELSE SumProducts(a, b, n - 1) + a.data[n] * b.data[n]

\* C20: for Vecs a and b of sizes in {2, 3, 4}, equal or not, a.dot(b) is
\* b.dot(a), and both are the sum of a_i * b_i over i < min(a.size, b.size);
\* the receiver is not modified
C20_DotCommutes ==
    (call.op = "dot" /\ IsVec(before) /\ IsVec(call.args)) =>
        /\ err = "none" /\ ret.kind = "number"
        /\ ret.val = SumProducts(before, call.args,
                                  Min(getSize(before), getSize(call.args)))
        /\ dot(call.args, before) = Ok(ret.val)
        /\ this = before

C20_Witness ==
    /\ call.op = "dot" /\ err = "none"
    /\ this = DotTest1 /\ call.args = DotTest2
    /\ ret.val = 6
    /\ dot(DotTest2, DotTest1) = Ok(6)

\* C21: for size-3 Vecs a and b, a.cross(b) is the size-3 Vec
\* (a.y*b.z - a.z*b.y, a.z*b.x - a.x*b.z, a.x*b.y - a.y*b.x), which is
\* a.getCrossMat() post-multiplied by b, and is the componentwise negation
\* of b.cross(a); the receiver is not modified
C21_Cross ==
    (/\ call.op = "cross" /\ IsVec(before) /\ getSize(before) = 3
     /\ IsVec(call.args) /\ getSize(call.args) = 3) =>
        LET a == before.data
            b == call.args.data
        IN /\ err = "none" /\ ret.kind = "matrix"
           /\ ret.val.dim = <<3, 1>>
           /\ ret.val.data = <<a[2] * b[3] - a[3] * b[2],
                                a[3] * b[1] - a[1] * b[3],
                                a[1] * b[2] - a[2] * b[1]>>
           /\ ret.val.data = postMul(getCrossMat(before).val, call.args).val.data
           /\ cross(call.args, before).err = "none"
           /\ \A i \in 1..3 : ret.val.data[i] = -cross(call.args, before).val.data[i]
           /\ this = before

C21_Witness ==
    /\ call.op = "cross" /\ err = "none"
    /\ this = CrossTest1 /\ call.args = CrossTest2
    /\ ret.val.data = <<-43, 13, 1>>
    /\ cross(CrossTest2, CrossTest1).val.data = <<43, -13, -1>>

\* the position of an axis, and the axes a multi-axis getter lists
AxisPosition(name) ==
    CASE name = "x" -> 0 [] name = "y" -> 1 [] name = "z" -> 2 [] name = "w" -> 3

AxesOf(op) ==
    CASE op = "xy" -> <<"x", "y">>
      [] op = "xyz" -> <<"x", "y", "z">>
      [] op = "xyzw" -> <<"x", "y", "z", "w">>
      [] op = "wxyz" -> <<"w", "x", "y", "z">>

AxisOfSetter(op) ==
    CASE op = "set x" -> "x" [] op = "set y" -> "y"
      [] op = "set z" -> "z" [] op = "set w" -> "w"

\* what reading the axis at position p of the vector v gives: its element
\* when p is below the size, the sentinel otherwise
IsAxisValue(r, v, p) ==
    IF p < getSize(v) THEN r = v.data[p + 1] ELSE r = NaN

\* C22: on a Vec of size N, reading x, y, z or w gives the element at
\* position 0..3 when that position is below N and the not-a-number
\* sentinel otherwise, with no error; assigning to an axis at a position
\* >= N raises nothing and changes no element, assigning to an existing
\* axis changes that element only; xy, xyz, xyzw and wxyz have lengths
\* 2, 3, 4 and 4 with the absent axes given as the sentinel
C22_Axes ==
    /\ call.op \in {"x", "y", "z", "w"} =>
          /\ err = "none" /\ this = before
          /\ IsAxisValue(ret.val, before, AxisPosition(call.op))
    /\ call.op \in {"set x", "set y", "set z", "set w"} =>
          LET p == AxisPosition(AxisOfSetter(call.op)) IN
          /\ err = "none"
          /\ this.dim = before.dim
          /\ Len(this.data) = Len(before.data)
          /\ \A i \in 1..Len(before.data) :
                this.data[i] = IF i = p + 1 /\ p < getSize(before)
                               THEN call.args ELSE before.data[i]
    /\ call.op \in {"xy", "xyz", "xyzw", "wxyz"} =>
          /\ err = "none" /\ this = before
          /\ Len(ret.val) = Len(AxesOf(call.op))
          /\ Len(ret.val) = (CASE call.op = "xy" -> 2 [] call.op = "xyz" -> 3
                               [] OTHER -> 4)
          /\ \A i \in 1..Len(ret.val) :
                IsAxisValue(ret.val[i], before, AxisPosition(AxesOf(call.op)[i]))

\* an assignment to w on a Vec of size 3 that left the vector as it was
C22_Witness ==
    /\ call.op = "set w" /\ err = "none"
    /\ before = MultiAttrTest /\ this = MultiAttrTest
    /\ getWxyz(this) = <<NaN, 23, 5, 12>>

----------------------------------------------------------------------------
(* SpecDfs: one call of slice, its nested iteration taken a step at a time *)

\* the ranges tried on the axis looked at: a number, and every pair and
\* triple of integral bounds of [-d, d] and integral steps of
\* [-MaxStep, MaxStep]
DfsRanges(d) ==
    {<<Num(r)>> : r \in 0..d}
    \cup {<<Num(a), Num(b)>> : a \in (-d)..d, b \in (-d)..d}
    \cup {<<Num(a), Num(b), Num(c)>> :
              a \in (-d)..d, b \in (-d)..d, c \in (-MaxStep)..MaxStep}

\* the ranges tried on the other axes: the whole axis, and the axis
\* downwards from its last index
NestRanges(d) == {<<0, Num(d)>>, <<Num(-1), 0, Num(-1)>>}

DfsArgs(m) ==
    UNION {Tuples([j \in 1..k |->
                     IF j = a THEN DfsRanges(m.dim[j]) ELSE NestRanges(m.dim[j])]) :
              k \in 1..Len(m.dim), a \in 1..Len(m.dim)}

InitDfs == \E s \in Shapes : Constructed(Arange(s))

NextDfs ==
    \/ Fresh /\ \E ranges \in DfsArgs(this) : SliceBegin(ranges)
    \/ DfsCall
    \/ DfsReturn
    \/ SliceEnd

SpecDfs == InitDfs /\ [][NextDfs]_vars

\* slice has returned or raised
SliceOver == call.op = "slice" /\ ret.kind # "dfs"

\* what the loop of level j still has to cover: stop - index going up,
\* index - stop going down
Remaining(f, j) ==
    IF f.ranges[j][1] < f.ranges[j][2]
    THEN f.ranges[j][2] - f.index[j]
    ELSE f.index[j] - f.ranges[j][2]

\* C23: slice terminates for every argument list.  Every range that passes
\* validation makes a loop that visits finitely many indices: each time
\* the loop of an axis comes round, what it still has to cover is positive
\* and gets strictly smaller, and an index it visits lies on the axis
C23_SliceTerminates ==
    [][/\ (ret.kind = "dfs" /\ ret.val.pc = "return" /\ ret.val.i >= 1
           /\ Len(ret.val.ranges[ret.val.i]) = 3 /\ ret'.kind = "dfs") =>
              /\ Remaining(ret.val, ret.val.i) > 0
              /\ Remaining(ret'.val, ret.val.i) < Remaining(ret.val, ret.val.i)
       /\ (ret'.kind = "dfs" /\ ret'.val.pc = "call") =>
              \A j \in 1..(ret'.val.i - 1) :
                  ret'.val.indices[j] \in 0..(this.dim[j] - 1)]_vars

\* the two renderings of slice end alike
DfsAgrees ==
    SliceOver =>
        LET r == slice(before, call.args) IN
        /\ err = r.err
        /\ err = "none" => ret.val = r.val

\* a call with an explicit step under an outer loop that visited all six
\* elements and returned
C23_Witness ==
    /\ SliceOver /\ err = "none"
    /\ this = Arange(<<2, 3>>)
    /\ call.args = << <<0, Num(2)>>, <<Num(-3), Num(3), Num(1)>> >>
    /\ ret.val = Arange(<<2, 3>>)

----------------------------------------------------------------------------
(* Slices of no element *)

\* start and stop of the range (in halves) are integers of their intervals
\* on an axis of length d and are one position once the negative ones are
\* counted from the end
SamePosition(d, range) ==
    /\ Len(range) \in {2, 3}
    /\ BoundFault(range[1], -d, d - 1) = "none"
    /\ BoundFault(range[2], -d, d) = "none"
    /\ NormBound(d, range[1]) = NormBound(d, range[2])

\* some range supplied is of one position
SomeSamePosition(dim, ranges) ==
    \E j \in 1..Len(ranges) : j <= Len(dim) /\ SamePosition(dim[j], ranges[j])

\* C24 as stated: slice returns no matrix with an axis of length 0, and a
\* call with a range whose start and stop are one position, with or
\* without a step, raises an invalid-value error
C24_EmptySliceIsInvalidValue ==
    (call.op = "slice") =>
        /\ err = "none" => \A j \in 1..Len(ret.val.dim) : ret.val.dim[j] # 0
        /\ SomeSamePosition(before.dim, call.args) =>
              err = "ValueError" /\ ret = NoResult

\* C24 as amended: slice returns no matrix with an axis of length 0, and a
\* call with a range whose start and stop are one position, with or
\* without a step, raises an error and returns nothing; the error is the
\* one the first range that fails validation calls for, and an
\* invalid-value error when every range passes validation
C24_EmptySliceRaises ==
    (call.op = "slice") =>
        /\ err = "none" => \A j \in 1..Len(ret.val.dim) : ret.val.dim[j] > 0
        /\ SomeSamePosition(before.dim, call.args) =>
              LET fault == SliceFault(before.dim, call.args) IN
              /\ ret = NoResult /\ this = before
              /\ err = IF fault # "none" THEN fault ELSE "ValueError"

\* [0, -dim[j]] with a step on the second axis, every range valid
C24_Witness ==
    /\ call.op = "slice" /\ err = "ValueError" /\ ret = NoResult
    /\ this = Arange(<<2, 3>>)
    /\ call.args = << <<0, Num(2)>>, <<0, Num(-3), Num(1)>> >>
    /\ SliceFault(before.dim, call.args) = "none"

====
